---- MODULE Spec2Model ----
(***************************************************************************)
(* A model of photo_editor.py (class PhotoEditor): the editing session of  *)
(* the image under edit, the crop drag geometry, the date normalisation,    *)
(* the filename allocation and the save / navigate pipeline.                *)
(*                                                                          *)
(* Text (file names, dates, user input) is a sequence of one-character      *)
(* strings, so that formatting, parsing and pattern matching are computed.  *)
(***************************************************************************)
EXTENDS Integers, Sequences, FiniteSets, TLC

\* ------------------------------------------------------------------ text

Digits == <<"0", "1", "2", "3", "4", "5", "6", "7", "8", "9">>

DigitSet == {Digits[i] : i \in 1..10}

DigitValues == [c \in DigitSet |-> (CHOOSE i \in 1..10 : Digits[i] = c) - 1]

IsDigit(c) == c \in DigitSet

DigitVal(c) == DigitValues[c]

\* Python's \s and str.strip(), on the white space the inputs use.
IsSpace(c) == c \in {" ", "\t"}

UpperLetters ==
    <<"A", "B", "C", "D", "E", "F", "G", "H", "I", "J", "K", "L", "M",
      "N", "O", "P", "Q", "R", "S", "T", "U", "V", "W", "X", "Y", "Z">>

LowerLetters ==
    <<"a", "b", "c", "d", "e", "f", "g", "h", "i", "j", "k", "l", "m",
      "n", "o", "p", "q", "r", "s", "t", "u", "v", "w", "x", "y", "z">>

UpperSet == {UpperLetters[i] : i \in 1..26}

LowerOf == [c \in UpperSet |-> LowerLetters[CHOOSE i \in 1..26 : UpperLetters[i] = c]]

\* str.lower() of one character.
LowerChar(c) == IF c \in UpperSet THEN LowerOf[c] ELSE c

Lower(s) == [i \in 1..Len(s) |-> LowerChar(s[i])]

\* int() of a run of decimal digits.
RECURSIVE ToInt(_)
ToInt(ds) ==
    IF Len(ds) = 0 THEN 0
    ELSE 10 * ToInt(SubSeq(ds, 1, Len(ds) - 1)) + DigitVal(ds[Len(ds)])

\* str(n) for n >= 0.
RECURSIVE Str(_)
Str(n) == IF n < 10 THEN <<Digits[n + 1]>> ELSE Str(n \div 10) \o <<Digits[(n % 10) + 1]>>

RECURSIVE Zeros(_)
Zeros(k) == IF k <= 0 THEN <<>> ELSE <<"0">> \o Zeros(k - 1)

\* f"{n:0{width}d}": zero-padded to at least width characters, never cut.
Fmt(n, width) == Zeros(width - Len(Str(n))) \o Str(n)

\* The code's None for a date (a date string is never empty).
NoDate == <<>>

\* ------------------------------------------------ datetime.strptime

\* An element of the list `formats`: directives "%Y" "%m" "%d" "%B" "%b",
\* " " (compiled by strptime to \s+) and literal characters.
formats ==
    << <<"%Y", "-", "%m", "-", "%d">>,
       <<"%Y", "/", "%m", "/", "%d">>,
       <<"%m", "-", "%d", "-", "%Y">>,
       <<"%m", "/", "%d", "/", "%Y">>,
       <<"%d", "-", "%m", "-", "%Y">>,
       <<"%d", "/", "%m", "/", "%Y">>,
       <<"%Y", "%m", "%d">>,
       <<"%m", "%d", "%Y">>,
       <<"%B", " ", "%d", ",", " ", "%Y">>,
       <<"%b", " ", "%d", ",", " ", "%Y">>,
       <<"%d", " ", "%B", " ", "%Y">>,
       <<"%d", " ", "%b", " ", "%Y">> >>

MonthNames ==
    << <<"j","a","n","u","a","r","y">>, <<"f","e","b","r","u","a","r","y">>,
       <<"m","a","r","c","h">>, <<"a","p","r","i","l">>, <<"m","a","y">>,
       <<"j","u","n","e">>, <<"j","u","l","y">>, <<"a","u","g","u","s","t">>,
       <<"s","e","p","t","e","m","b","e","r">>, <<"o","c","t","o","b","e","r">>,
       <<"n","o","v","e","m","b","e","r">>, <<"d","e","c","e","m","b","e","r">> >>

MonthAbbrs == [i \in 1..12 |-> SubSeq(MonthNames[i], 1, 3)]

NoMatch == [ok |-> FALSE]

\* Whether the text t stands at position pos of s, letters compared without case.
StartsAt(s, pos, t) ==
    /\ pos + Len(t) - 1 <= Len(s)
    /\ \A i \in 1..Len(t) : LowerChar(s[pos + i - 1]) = LowerChar(t[i])

At(s, pos) == IF pos <= Len(s) THEN s[pos] ELSE "<end>"

\* The alternatives of %m at pos, in the order of its regular expression
\* 1[0-2]|0[1-9]|[1-9]; each is the length matched and the value.
MonthAlts(s, pos) ==
    LET c1 == At(s, pos)
        c2 == At(s, pos + 1)
    IN  (IF c1 = "1" /\ c2 \in {"0", "1", "2"}
            THEN << [len |-> 2, val |-> 10 + DigitVal(c2)] >> ELSE <<>>)
     \o (IF c1 = "0" /\ IsDigit(c2) /\ c2 # "0"
            THEN << [len |-> 2, val |-> DigitVal(c2)] >> ELSE <<>>)
     \o (IF IsDigit(c1) /\ c1 # "0"
            THEN << [len |-> 1, val |-> DigitVal(c1)] >> ELSE <<>>)

\* The alternatives of %d: 3[0-1]|[1-2]\d|0[1-9]|[1-9]| [1-9].
DayAlts(s, pos) ==
    LET c1 == At(s, pos)
        c2 == At(s, pos + 1)
    IN  (IF c1 = "3" /\ c2 \in {"0", "1"}
            THEN << [len |-> 2, val |-> 30 + DigitVal(c2)] >> ELSE <<>>)
     \o (IF c1 \in {"1", "2"} /\ IsDigit(c2)
            THEN << [len |-> 2, val |-> 10 * DigitVal(c1) + DigitVal(c2)] >> ELSE <<>>)
     \o (IF c1 = "0" /\ IsDigit(c2) /\ c2 # "0"
            THEN << [len |-> 2, val |-> DigitVal(c2)] >> ELSE <<>>)
     \o (IF IsDigit(c1) /\ c1 # "0"
            THEN << [len |-> 1, val |-> DigitVal(c1)] >> ELSE <<>>)
     \o (IF c1 = " " /\ IsDigit(c2) /\ c2 # "0"
            THEN << [len |-> 2, val |-> DigitVal(c2)] >> ELSE <<>>)

\* %B or %b: the month names are tried longest first; no name is a prefix of
\* another of the same list, so at most one stands at pos.
NameAlts(names, s, pos) ==
    IF \E i \in 1..12 : StartsAt(s, pos, names[i])
    THEN LET i == CHOOSE j \in 1..12 : StartsAt(s, pos, names[j])
         IN  << [len |-> Len(names[i]), val |-> i] >>
    ELSE <<>>

RECURSIVE SpaceRun(_, _)
SpaceRun(s, pos) == IF pos <= Len(s) /\ IsSpace(s[pos]) THEN 1 + SpaceRun(s, pos + 1) ELSE 0

\* \s+ is greedy: the longest run first, then shorter ones.
SpaceAlts(s, pos) ==
    LET n == SpaceRun(s, pos) IN [i \in 1..n |-> [len |-> n + 1 - i, val |-> 0]]

\* The first match of the format's regular expression at the start of s, found
\* as re.match finds it: alternatives in order, backtracking into earlier ones.
RECURSIVE Match(_, _, _, _, _)
RECURSIVE TryAlts(_, _, _, _, _, _, _, _)
TryAlts(fmt, k, s, pos, acc, fld, alts, j) ==
    IF j > Len(alts) THEN NoMatch
    ELSE LET r == Match(fmt, k + 1, s, pos + alts[j].len,
                        IF fld = "none" THEN acc ELSE [acc EXCEPT ![fld] = alts[j].val])
         IN  IF r.ok THEN r ELSE TryAlts(fmt, k, s, pos, acc, fld, alts, j + 1)

Match(fmt, k, s, pos, acc) ==
    IF k > Len(fmt) THEN [ok |-> TRUE, end |-> pos, Y |-> acc.Y, m |-> acc.m, d |-> acc.d]
    ELSE LET t == fmt[k] IN
         CASE t = "%Y" ->
                IF /\ pos + 3 <= Len(s)
                   /\ \A i \in pos..(pos + 3) : IsDigit(s[i])
                THEN Match(fmt, k + 1, s, pos + 4,
                           [acc EXCEPT !.Y = ToInt(SubSeq(s, pos, pos + 3))])
                ELSE NoMatch
           [] t = "%m" -> TryAlts(fmt, k, s, pos, acc, "m", MonthAlts(s, pos), 1)
           [] t = "%d" -> TryAlts(fmt, k, s, pos, acc, "d", DayAlts(s, pos), 1)
           [] t = "%B" -> TryAlts(fmt, k, s, pos, acc, "m", NameAlts(MonthNames, s, pos), 1)
           [] t = "%b" -> TryAlts(fmt, k, s, pos, acc, "m", NameAlts(MonthAbbrs, s, pos), 1)
           [] t = " "  -> TryAlts(fmt, k, s, pos, acc, "none", SpaceAlts(s, pos), 1)
           [] OTHER    -> IF At(s, pos) = t THEN Match(fmt, k + 1, s, pos + 1, acc)
                          ELSE NoMatch

IsLeap(y) == (y % 4 = 0) /\ ((y % 100 # 0) \/ (y % 400 = 0))

DaysInMonth(y, m) ==
    IF m = 2 THEN (IF IsLeap(y) THEN 29 ELSE 28)
    ELSE IF m \in {4, 6, 9, 11} THEN 30 ELSE 31

\* datetime.strptime(s, fmt): the match must consume all of s ("unconverted
\* data remains" otherwise) and name a date datetime accepts (year >= 1, a day
\* the month has); ValueError is ok = FALSE.
strptime(s, fmt) ==
    LET r == Match(fmt, 1, s, 1, [Y |-> 1900, m |-> 1, d |-> 1])
    IN  IF r.ok /\ r.end = Len(s) + 1 /\ r.Y >= 1 /\ r.d <= DaysInMonth(r.Y, r.m)
        THEN r ELSE NoMatch

\* dt.strftime('%Y-%m-%d'): %m and %d are two digits; %Y is the year as the C
\* library of the build prints it: in four digits (year_padded), or without
\* padding as glibc does (year 520 is "520").
strftime(r, year_padded) ==
    (IF year_padded THEN Fmt(r.Y, 4) ELSE Str(r.Y))
        \o <<"-">> \o Fmt(r.m, 2) \o <<"-">> \o Fmt(r.d, 2)

\* ------------------------------------------------------ normalize_date

RECURSIVE Strip(_)
Strip(s) ==
    IF Len(s) = 0 THEN s
    ELSE IF IsSpace(s[1]) THEN Strip(Tail(s))
    ELSE IF IsSpace(s[Len(s)]) THEN Strip(SubSeq(s, 1, Len(s) - 1))
    ELSE s

\* re.findall(r'\d+', s): the maximal runs of digits, left to right.
RECURSIVE DigitRuns(_, _)
DigitRuns(s, cur) ==
    IF Len(s) = 0 THEN (IF Len(cur) > 0 THEN <<cur>> ELSE <<>>)
    ELSE IF IsDigit(s[1]) THEN DigitRuns(Tail(s), Append(cur, s[1]))
    ELSE (IF Len(cur) > 0 THEN <<cur>> ELSE <<>>) \o DigitRuns(Tail(s), <<>>)

\* re.sub(r'\D', '', s).
DigitsOnly(s) == SelectSeq(s, IsDigit)

Ymd(y, m, d) == Fmt(y, 4) \o <<"-">> \o Fmt(m, 2) \o <<"-">> \o Fmt(d, 2)

\* The first format of `formats`, from index i on, that strptime accepts.
RECURSIVE FirstStrict(_, _)
FirstStrict(s, i) ==
    IF i > Len(formats) THEN NoMatch
    ELSE LET r == strptime(s, formats[i])
         IN  IF r.ok THEN r ELSE FirstStrict(s, i + 1)

\* The three-group guess with a two-digit year 50 put in the 1900s.
ThreeGroups_fifty_in_1900s(numbers) ==
    LET a == ToInt(numbers[1])
        b == ToInt(numbers[2])
        c == ToInt(numbers[3])
    IN  IF a > 31 THEN Ymd(a, b, c)
        ELSE IF c >= 100
             THEN (IF a > 12 THEN Ymd(c, b, a) ELSE Ymd(c, a, b))
             ELSE Ymd(IF c >= 50 THEN 1900 + c ELSE 2000 + c, a, b)

\* Lines 700-715: exactly three digit groups, guessed by magnitude.
ThreeGroups(numbers) ==
    LET a == ToInt(numbers[1])
        b == ToInt(numbers[2])
        c == ToInt(numbers[3])
    IN  IF a > 31 THEN Ymd(a, b, c)
        ELSE IF c >= 100
             THEN (IF a > 12 THEN Ymd(c, b, a) ELSE Ymd(c, a, b))
             ELSE Ymd(IF c > 50 THEN 1900 + c ELSE 2000 + c, a, b)

\* Lines 717-737: four to six digits in all, the last two the year.
Compact(digits_only) ==
    LET n    == Len(digits_only)
        yy   == ToInt(SubSeq(digits_only, n - 1, n))
        year == IF yy > 50 THEN 1900 + yy ELSE 2000 + yy
        rest == SubSeq(digits_only, 1, n - 2)
        mm   == IF Len(rest) = 4 THEN ToInt(SubSeq(rest, 1, 2)) ELSE ToInt(SubSeq(rest, 1, 1))
        dd   == IF Len(rest) = 4 THEN ToInt(SubSeq(rest, 3, 4))
                ELSE ToInt(SubSeq(rest, 2, Len(rest)))
    IN  IF 1 <= mm /\ mm <= 12 /\ 1 <= dd /\ dd <= 31 THEN Ymd(year, mm, dd) ELSE NoDate

\* normalize_date taking the first three of three or more digit groups.
normalize_date_three_or_more(date_str, year_padded) ==
    LET s       == Strip(date_str)
        strict  == FirstStrict(s, 1)
        numbers == DigitRuns(s, <<>>)
        digits  == DigitsOnly(s)
    IN  IF strict.ok THEN strftime(strict, year_padded)
        ELSE IF Len(numbers) >= 3 THEN ThreeGroups(numbers)
        ELSE IF 4 <= Len(digits) /\ Len(digits) <= 6 THEN Compact(digits)
        ELSE NoDate

\* normalize_date(date_str), on a build whose strftime pads the year or does
\* not: the date as text, or NoDate for None.
normalize_date(date_str, year_padded) ==
    LET s       == Strip(date_str)
        strict  == FirstStrict(s, 1)
        numbers == DigitRuns(s, <<>>)
        digits  == DigitsOnly(s)
    IN  IF strict.ok THEN strftime(strict, year_padded)
        ELSE IF Len(numbers) = 3 THEN ThreeGroups(numbers)
        ELSE IF 4 <= Len(digits) /\ Len(digits) <= 6 THEN Compact(digits)
        ELSE NoDate

\* --------------------------------------------------------------- images

\* A decoded image: its size and what its pixels are, namely the pixels of the
\* scan `base` with ins[x] pixels cut from side x of the scan, turned so that the
\* image's left, top, right and bottom sides are the scan's sides[1..4].
\* Two images are pixel-identical exactly when the records are equal.
Scan(base, w, h) ==
    [w |-> w, h |-> h, base |-> base, sides |-> <<"L", "T", "R", "B">>,
     ins |-> [x \in {"L", "T", "R", "B"} |-> 0]]

\* Image.transpose(FLIP_LEFT_RIGHT).
FlipLeftRight(img) ==
    [img EXCEPT !.sides = <<img.sides[3], img.sides[2], img.sides[1], img.sides[4]>>]

\* Image.transpose(ROTATE_90): a quarter turn counter-clockwise, the top side
\* becomes the left one; width and height are exchanged.
Rotate90(img) ==
    [img EXCEPT !.w = img.h, !.h = img.w,
                !.sides = <<img.sides[2], img.sides[3], img.sides[4], img.sides[1]>>]

\* Image.transpose(ROTATE_270): a quarter turn clockwise.
Rotate270(img) ==
    [img EXCEPT !.w = img.h, !.h = img.w,
                !.sides = <<img.sides[4], img.sides[1], img.sides[2], img.sides[3]>>]

Rotate180(img) ==
    [img EXCEPT !.sides = <<img.sides[3], img.sides[4], img.sides[1], img.sides[2]>>]

\* Image.crop((left, top, right, bottom)) for a box inside the image.
Crop(img, left, top, right, bottom) ==
    [img EXCEPT !.w = right - left, !.h = bottom - top,
                !.ins = [x \in {"L", "T", "R", "B"} |->
                            img.ins[x]
                            + (IF img.sides[1] = x THEN left ELSE 0)
                            + (IF img.sides[2] = x THEN top ELSE 0)
                            + (IF img.sides[3] = x THEN img.w - right ELSE 0)
                            + (IF img.sides[4] = x THEN img.h - bottom ELSE 0)]]

\* ImageOps.exif_transpose: the orientation tag applied to the pixels
\* (tags 1, 2, 3, 6 and 8; the files of this model carry no other).
ExifTranspose(img, orient) ==
    CASE orient = 2 -> FlipLeftRight(img)
      [] orient = 3 -> Rotate180(img)
      [] orient = 6 -> Rotate270(img)
      [] orient = 8 -> Rotate90(img)
      [] OTHER      -> img

\* ---------------------------------------------------------------- files

\* self.folder.name
folder_name == <<"t", "r", "i", "p">>

\* The suffixes __init__ keeps.
ImageSuffixes ==
    { <<".", "j", "p", "g">>, <<".", "j", "p", "e", "g">>, <<".", "p", "n", "g">>,
      <<".", "t", "i", "f", "f">>, <<".", "t", "i", "f">>, <<".", "b", "m", "p">> }

\* Path.suffix: from the last dot of the name, unless that dot starts or ends it.
Suffix(name) ==
    LET dots == {i \in 2..Len(name) : name[i] = "."}
    IN  IF dots = {} \/ name[Len(name)] = "." THEN <<>>
        ELSE SubSeq(name, CHOOSE i \in dots : \A j \in dots : j <= i, Len(name))

\* The characters of file names in code point order, for sorted().
CodeOrder ==
    <<" ", "(", ")", "-", ".", "0", "1", "2", "3", "4", "5", "6", "7", "8", "9", ":">>
    \o UpperLetters \o <<"_">> \o LowerLetters

Ord(c) == CHOOSE i \in 1..Len(CodeOrder) : CodeOrder[i] = c

RECURSIVE NameLess(_, _)
NameLess(a, b) ==
    IF Len(b) = 0 THEN FALSE
    ELSE IF Len(a) = 0 THEN TRUE
    ELSE IF a[1] = b[1] THEN NameLess(Tail(a), Tail(b))
    ELSE Ord(a[1]) < Ord(b[1])

\* sorted(...) of a set of paths of one folder.
RECURSIVE Sorted(_)
Sorted(S) ==
    IF S = {} THEN <<>>
    ELSE LET least == CHOOSE a \in S : \A b \in S \ {a} : NameLess(a, b)
         IN  <<least>> \o Sorted(S \ {least})

\* The EXIF form of a date: YYYY:MM:DD and noon.
ExifDate(date) ==
    [i \in 1..Len(date) |-> IF date[i] = "-" THEN ":" ELSE date[i]]
    \o <<" ", "1", "2", ":", "0", "0", ":", "0", "0">>

\* read_exif_date: DateTimeOriginal cut to ten characters, ':' turned to '-';
\* None when the file has no such tag.
read_exif_date(entry) ==
    IF entry.date = <<>> THEN NoDate
    ELSE LET d == SubSeq(entry.date, 1, IF Len(entry.date) < 10 THEN Len(entry.date) ELSE 10)
         IN  [i \in 1..Len(d) |-> IF d[i] = ":" THEN "-" ELSE d[i]]

\* --------------------------------------------------- generate_new_filename

\* The next-number patterns of lines 767-770 and 790, piece by piece: literal
\* text (re.escape, matched without case under re.IGNORECASE), \s+ and (\d+).
Lit(text) == [kind |-> "lit", text |-> text]

Spaces == [kind |-> "\\s+", text |-> <<>>]

Number == [kind |-> "(\\d+)", text |-> <<>>]

DatedPattern(date, extension) ==
    << Lit(date), Spaces, Lit(<<"(">> \o folder_name \o <<")">>), Spaces, Number,
       Lit(extension) >>

PlainPattern(extension) == << Lit(folder_name), Spaces, Number, Lit(extension) >>

RECURSIVE DigitRun(_, _)
DigitRun(s, pos) == IF pos <= Len(s) /\ IsDigit(s[pos]) THEN 1 + DigitRun(s, pos + 1) ELSE 0

\* pattern.match(name): the number of group 1, or -1 when the name does not
\* match from its first to its last character. The piece after a \s+ or a \d+
\* never starts with white space or a digit, so the greedy run is the match.
RECURSIVE PatternNumber(_, _, _, _, _)
PatternNumber(pat, k, name, pos, num) ==
    IF k > Len(pat) THEN (IF pos = Len(name) + 1 THEN num ELSE -1)
    ELSE CASE pat[k].kind = "\\s+" ->
                IF SpaceRun(name, pos) = 0 THEN -1
                ELSE PatternNumber(pat, k + 1, name, pos + SpaceRun(name, pos), num)
           [] pat[k].kind = "(\\d+)" ->
                IF DigitRun(name, pos) = 0 THEN -1
                ELSE PatternNumber(pat, k + 1, name, pos + DigitRun(name, pos),
                                   ToInt(SubSeq(name, pos, pos + DigitRun(name, pos) - 1)))
           [] OTHER ->
                IF StartsAt(name, pos, pat[k].text)
                THEN PatternNumber(pat, k + 1, name, pos + Len(pat[k].text), num)
                ELSE -1

\* max(numbers, default=0)
MaxNumber(S) == IF S = {} THEN 0 ELSE CHOOSE n \in S : \A m \in S : m <= n

DatedName(date, n, extension) ==
    date \o <<" ", "(">> \o folder_name \o <<")", " ">> \o Str(n) \o extension

PlainName(n, extension) == folder_name \o <<" ">> \o Str(n) \o extension

\* The while loops of lines 784-786 and 804-806.
RECURSIVE NextFree(_, _, _, _, _)
NextFree(date, n, extension, original_path, dsk) ==
    LET new_path == IF date # NoDate THEN DatedName(date, n, extension)
                    ELSE PlainName(n, extension)
    IN  IF new_path \in DOMAIN dsk /\ new_path # original_path
        THEN NextFree(date, n + 1, extension, original_path, dsk)
        ELSE n

\* existing_numbers: the numbers of the regular files that match the pattern;
\* only the dated branch leaves out the file being saved (line 776 against 796).
existing_numbers(original_path, date, dsk) ==
    LET extension == Lower(Suffix(original_path))
        files     == {f \in DOMAIN dsk : dsk[f].isfile}
    IN  IF date # NoDate
        THEN { PatternNumber(DatedPattern(date, extension), 1, f, 1, -1) :
                 f \in files \ {original_path} } \ {-1}
        ELSE { PatternNumber(PlainPattern(extension), 1, f, 1, -1) : f \in files } \ {-1}

\* A numbering that fills the gaps: the lowest number whose name is free.
RECURSIVE first_free(_, _, _, _, _)
first_free(date, n, extension, original_path, dsk) ==
    LET new_path == IF date # NoDate THEN DatedName(date, n, extension)
                    ELSE PlainName(n, extension)
    IN  IF new_path \in DOMAIN dsk /\ new_path # original_path
        THEN first_free(date, n + 1, extension, original_path, dsk)
        ELSE n

next_num_filling_gaps(original_path, date, dsk) ==
    first_free(date, 1, Lower(Suffix(original_path)), original_path, dsk)

\* A numbering by the count of the matching files, without the look at the
\* folder that the while loops take.
next_num_by_count(original_path, date, dsk) ==
    Cardinality(existing_numbers(original_path, date, dsk)) + 1

\* The running number generate_new_filename settles on.
next_num(original_path, date, dsk) ==
    NextFree(date, MaxNumber(existing_numbers(original_path, date, dsk)) + 1,
             Lower(Suffix(original_path)), original_path, dsk)

\* generate_new_filename(original_path), with self.current_date = date and the
\* folder holding dsk.
generate_new_filename(original_path, date, dsk) ==
    IF date # NoDate
    THEN DatedName(date, next_num(original_path, date, dsk), Lower(Suffix(original_path)))
    ELSE PlainName(next_num(original_path, date, dsk), Lower(Suffix(original_path)))

\* ---------------------------------------------------------------- state

VARIABLES
    disk,             \* the folder: name -> [isfile, img, date, orient, tags]
    images,           \* self.images
    current_index,    \* self.current_index (from 0)
    current_image,    \* self.current_image
    original_image,   \* self.original_image
    current_date,     \* self.current_date
    original_date,    \* self.original_date
    has_changes,      \* self.has_changes
    crop_left, crop_top, crop_right, crop_bottom,
    dragging_edge,    \* self.dragging_edge, "none" for None
    drag_start_pos,   \* self.drag_start_pos
    drag_start_crop,  \* self.drag_start_crop
    recent_dates,     \* self.recent_dates
    button_down,      \* the pointer: whether button 1 is held
    saved_since_load, \* history: a save has succeeded since the image was loaded
    writes,           \* history: how many files the saves have written
    running,          \* the window exists: root.destroy() has not been called
    invalid_date_shown \* history: the "Invalid Date" error box has been shown

vars ==
    <<disk, images, current_index, current_image, original_image, current_date,
      original_date, has_changes, crop_left, crop_top, crop_right, crop_bottom,
      dragging_edge, drag_start_pos, drag_start_crop, recent_dates, button_down,
      saved_since_load, writes, running, invalid_date_shown>>

crop_vars == <<crop_left, crop_top, crop_right, crop_bottom>>

drag_vars == <<dragging_edge, drag_start_pos, drag_start_crop>>

gallery_vars == <<disk, images, current_index>>

\* --------------------------------------------------------------- bounds

\* How many files the saves of one run may write.
MaxWrites == 2

\* The canvas, as winfo_width() and winfo_height() give it.
Canvas == [width |-> 100, height |-> 100]

\* Where the pointer events of the model happen, in canvas coordinates: on the
\* left edge and a long drag away from it,
LeftPoints == { <<0, 50>>, <<60, 50>> }

\* on each of the four edges and inside the image,
EdgePoints == LeftPoints \cup { <<100, 50>>, <<30, 12>>, <<30, 50>>, <<30, 88>> }

\* and ten pixels inside the left and the right edge.
InsetPoints == { <<0, 50>>, <<10, 50>>, <<90, 50>>, <<100, 50>> }

PointerPoints == EdgePoints \cup InsetPoints

\* What the user types into the date dialog: a date, words, and nothing (the
\* dialog cancelled).
DateInputs == { <<"3", "/", "4", "/", "0", "5">>, <<"s", "o", "o", "n">>, <<>> }

\* The inputs of the date dialog that bring up no error box.
QuietDateInputs ==
    {date_str \in DateInputs : date_str = <<>> \/ normalize_date(date_str, TRUE) # NoDate}

\* The inputs of the date dialog that normalize_date cannot parse.
UnparsedDateInputs == DateInputs \ QuietDateInputs

\* Dates written out after each format of `formats`, the month and the day in
\* two digits or as short as they go, the month names in small letters; with
\* them "15 Jan 2024" and the six digits "052096".
ParseYears == {520, 1996, 2024}

ParseMonths == {1, 5, 9, 12}

ParseDays == {1, 6, 15, 20, 29, 31}

RECURSIVE WrittenAs(_, _, _, _, _, _)
WrittenAs(fmt, k, y, m, d, two_digits) ==
    IF k > Len(fmt) THEN <<>>
    ELSE (CASE fmt[k] = "%Y" -> Fmt(y, 4)
            [] fmt[k] = "%m" -> IF two_digits THEN Fmt(m, 2) ELSE Str(m)
            [] fmt[k] = "%d" -> IF two_digits THEN Fmt(d, 2) ELSE Str(d)
            [] fmt[k] = "%B" -> MonthNames[m]
            [] fmt[k] = "%b" -> MonthAbbrs[m]
            [] OTHER         -> <<fmt[k]>>)
         \o WrittenAs(fmt, k + 1, y, m, d, two_digits)

ParseInputs ==
    { WrittenAs(formats[k], 1, y, m, d, two_digits) :
        k \in 1..Len(formats), y \in ParseYears, m \in ParseMonths, d \in ParseDays,
        two_digits \in BOOLEAN }
    \cup { <<"1", "5", " ", "J", "a", "n", " ", "2", "0", "2", "4">>,
           <<"0", "5", "2", "0", "9", "6">> }

\* Texts that strptime accepts under no format: three numbers with dots
\* between them, digits with a space among them, and texts with too few or too
\* many digits.
FirstNumbers == {1, 12, 13, 31, 32, 96}

SecondNumbers == {1, 12, 45}

ThirdNumbers == {5, 50, 51, 99, 100, 2024}

Dotted(a, b, c) == Str(a) \o <<".">> \o Str(b) \o <<".">> \o Str(c)

DottedInputs ==
    { Dotted(a, b, c) : a \in FirstNumbers, b \in SecondNumbers, c \in ThirdNumbers }

SpacedInputs ==
    { <<"0", "5", "2", "0", " ", "9", "6">>, <<"5", "2", "0", " ", "9", "6">>,
      <<"1", "3", " ", "9", "6">>, <<"1", "3", "5", "0", " ", "9", "6">>,
      <<"0", "5", "3", "2", " ", "9", "6">>, <<"0", "0", "1", "2", " ", "5", "0">> }

OtherInputs ==
    { <<"s", "o", "o", "n">>, <<"1", " ", "2">>, <<"9", "6">>,
      <<"1", ".", "2", ".", "3", ".", "4", ".", "5", ".", "6", ".", "7">>,
      <<"2", "0", "2", "4", " ", "0", "1", "1", "5">> }

FallbackInputs == DottedInputs \cup SpacedInputs \cup OtherInputs

\* The digit keys pressed for quick_select_date.
QuickKeys == {1, 2}

\* The digit key of the last slot of the recent dates.
LastKey == 9

\* A series of dates typed into the date dialog, one a month: "1/1/01",
\* "2/1/01", ... up to MaxSeries of them.
MaxSeries == 9

SeriesInput(i) == Str(i) \o <<"/", "1", "/", "0", "1">>

\* The dates of the series as normalize_date gives them (lines 700-715, the
\* month first): the first day of each month of 2001.
SeriesDates == [i \in 1..MaxSeries |-> Ymd(2001, i, 1)]

\* Where a save may fail: nowhere, in piexif.dump, in Image.save, in unlink.
SaveFailures == {"none", "dump", "write", "unlink"}

FileA == <<"a", ".", "j", "p", "g">>

FileB == <<"b", ".", "J", "P", "G">>

EntryA ==
    [isfile |-> TRUE, img |-> Scan("a", 100, 100), date |-> <<>>, orient |-> 1,
     tags |-> "none"]

\* A portrait scan stored on its side, with a capture date and an orientation tag.
EntryB ==
    [isfile |-> TRUE, img |-> Scan("b", 100, 200),
     date |-> <<"2", "0", "2", "4", ":", "0", "1", ":", "1", "5", " ",
                "0", "9", ":", "3", "0", ":", "0", "0">>,
     orient |-> 6, tags |-> "camera"]

\* Files the program wrote on earlier runs, with and without a date.
Dated(n) == DatedName(<<"2", "0", "2", "4", "-", "0", "1", "-", "1", "5">>, n, <<".", "j", "p", "g">>)

Plain(n) == PlainName(n, <<".", "j", "p", "g">>)

EntryDated(n) ==
    [isfile |-> TRUE, img |-> Scan(Str(n), 100, 100),
     date |-> <<"2", "0", "2", "4", ":", "0", "1", ":", "1", "5", " ",
                "1", "2", ":", "0", "0", ":", "0", "0">>,
     orient |-> 1, tags |-> "none"]

EntryPlain(n) ==
    [isfile |-> TRUE, img |-> Scan(Str(n), 100, 100), date |-> <<>>, orient |-> 1,
     tags |-> "none"]

\* The folders the program is started on.
FolderA == [n \in {FileA} |-> EntryA]

FolderB == [n \in {FileB} |-> EntryB]

FolderAB == [n \in {FileA, FileB} |-> IF n = FileA THEN EntryA ELSE EntryB]

Folders == {FolderA, FolderAB}

\* Folders that hold numbered files already, the numbers 1 and 3, and one
\* image more.
FolderDated ==
    [n \in {Dated(1), Dated(3), FileB} |->
        IF n = FileB THEN EntryB ELSE IF n = Dated(1) THEN EntryDated(1) ELSE EntryDated(3)]

FolderPlain ==
    [n \in {Plain(1), Plain(3), FileA} |->
        IF n = FileA THEN EntryA ELSE IF n = Plain(1) THEN EntryPlain(1) ELSE EntryPlain(3)]

NumberedFolders == {FolderDated, FolderPlain}

\* ------------------------------------------------------------- display

\* display_image: scale = min(canvas_width / img_width, canvas_height /
\* img_height, 1.0), kept as the fraction num/den (the sizes of the model give
\* 1 and 1/2, which floating point holds exactly).
display_scale ==
    LET iw == current_image.w
        ih == current_image.h
    IN  IF iw <= Canvas.width /\ ih <= Canvas.height THEN [num |-> 1, den |-> 1]
        ELSE IF Canvas.width * ih <= Canvas.height * iw
             THEN [num |-> Canvas.width, den |-> iw]
             ELSE [num |-> Canvas.height, den |-> ih]

\* int(pixels * scale) for pixels >= 0.
ToDisplay(pixels) == (pixels * display_scale.num) \div display_scale.den

\* int(delta_display / scale): int() cuts towards zero.
ToImage(delta_display) ==
    LET a == delta_display * display_scale.den
        b == display_scale.num
    IN  IF a >= 0 THEN a \div b ELSE -((-a) \div b)

display_width == ToDisplay(current_image.w)

display_height == ToDisplay(current_image.h)

image_display_x == (Canvas.width - display_width) \div 2

image_display_y == (Canvas.height - display_height) \div 2

Abs(n) == IF n < 0 THEN -n ELSE n

\* get_edge_at_position(x, y), "none" for None.
get_edge_at_position(x, y) ==
    LET left_x     == image_display_x + ToDisplay(crop_left)
        top_y      == image_display_y + ToDisplay(crop_top)
        right_x    == image_display_x + display_width - ToDisplay(crop_right)
        bottom_y   == image_display_y + display_height - ToDisplay(crop_bottom)
        img_top    == image_display_y
        img_bottom == image_display_y + display_height
        img_left   == image_display_x
        img_right  == image_display_x + display_width
        edge_threshold == 15
    IN  IF img_top <= y /\ y <= img_bottom /\ Abs(x - left_x) < edge_threshold THEN "left"
        ELSE IF img_top <= y /\ y <= img_bottom /\ Abs(x - right_x) < edge_threshold
             THEN "right"
        ELSE IF img_left <= x /\ x <= img_right /\ Abs(y - top_y) < edge_threshold THEN "top"
        ELSE IF img_left <= x /\ x <= img_right /\ Abs(y - bottom_y) < edge_threshold
             THEN "bottom"
        ELSE "none"

\* ------------------------------------------------------------ recent dates

\* list.remove(x): the list without the first of its entries equal to x.
Remove(dates, x) ==
    LET first == CHOOSE i \in 1..Len(dates) :
                    dates[i] = x /\ \A j \in 1..(i - 1) : dates[j] # x
    IN  SubSeq(dates, 1, first - 1) \o SubSeq(dates, first + 1, Len(dates))

\* An add_recent_date that leaves the earlier copy of the date in the list.
add_recent_date_keeping_copy(dates, date_str) ==
    LET all == <<date_str>> \o dates
    IN  SubSeq(all, 1, IF Len(all) < 9 THEN Len(all) ELSE 9)

\* add_recent_date: to the front, without its earlier copy, nine at most.
add_recent_date(dates, date_str) ==
    LET without == IF \E i \in 1..Len(dates) : dates[i] = date_str
                   THEN Remove(dates, date_str)
                   ELSE dates
        all     == <<date_str>> \o without
    IN  SubSeq(all, 1, IF Len(all) < 9 THEN Len(all) ELSE 9)

\* ---------------------------------------------------------------- load

\* load_image() with self.current_index = index, self.images = imgs and the
\* folder holding dsk.
load_image(index, imgs, dsk) ==
    LET path == imgs[index + 1]
        img  == ExifTranspose(dsk[path].img, dsk[path].orient)
        date == read_exif_date(dsk[path])
    IN  /\ current_image' = img
        /\ original_image' = img
        /\ has_changes' = FALSE
        /\ crop_left' = 0
        /\ crop_top' = 0
        /\ crop_right' = 0
        /\ crop_bottom' = 0
        /\ original_date' = date
        /\ current_date' = date
        /\ recent_dates' = IF date # NoDate THEN add_recent_date(recent_dates, date)
                           ELSE recent_dates
        /\ saved_since_load' = FALSE

\* The gallery of __init__: the entries with an image suffix, sorted.
Gallery(dsk) == Sorted({f \in DOMAIN dsk : Lower(Suffix(f)) \in ImageSuffixes})

\* The state __init__ leaves on the folder dsk: the first image loaded, nothing
\* dragged.
InitOn(dsk) ==
    LET path == Gallery(dsk)[1]
        img  == ExifTranspose(dsk[path].img, dsk[path].orient)
        date == read_exif_date(dsk[path])
    IN  /\ disk = dsk
        /\ images = Gallery(dsk)
        /\ current_index = 0
        /\ current_image = img
        /\ original_image = img
        /\ has_changes = FALSE
        /\ crop_left = 0
        /\ crop_top = 0
        /\ crop_right = 0
        /\ crop_bottom = 0
        /\ original_date = date
        /\ current_date = date
        /\ recent_dates = IF date # NoDate THEN <<date>> ELSE <<>>
        /\ dragging_edge = "none"
        /\ drag_start_pos = 0
        /\ drag_start_crop = 0
        /\ button_down = FALSE
        /\ saved_since_load = FALSE
        /\ writes = 0
        /\ running = TRUE
        /\ invalid_date_shown = FALSE

Init == \E dsk \in Folders : InitOn(dsk)

\* ------------------------------------------------------------- pointer

\* on_mouse_move(event): the cursor of the canvas follows the edge under the
\* pointer; nothing of the session changes.
on_mouse_move(x, y) == UNCHANGED vars

\* on_mouse_down(event): a press on an edge starts a drag of it; a press
\* elsewhere changes nothing.
on_mouse_down(x, y) ==
    LET edge == get_edge_at_position(x, y) IN
    /\ ~button_down
    /\ button_down' = TRUE
    /\ IF edge # "none"
       THEN /\ dragging_edge' = edge
            /\ drag_start_pos' = IF edge \in {"left", "right"} THEN x ELSE y
            /\ drag_start_crop' = CASE edge = "left"   -> crop_left
                                    [] edge = "right"  -> crop_right
                                    [] edge = "top"    -> crop_top
                                    [] edge = "bottom" -> crop_bottom
       ELSE UNCHANGED drag_vars
    /\ UNCHANGED <<gallery_vars, current_image, original_image, current_date,
                   original_date, has_changes, crop_vars, recent_dates,
                   saved_since_load, writes, running, invalid_date_shown>>

\* min_remaining, "Minimum image size to keep" (lines 574, 580, 589, 594).
min_remaining == 50

Max(a, b) == IF a >= b THEN a ELSE b

Min(a, b) == IF a <= b THEN a ELSE b

\* A drag that clamps at zero only, without the limit the opposite edge sets.
crop_after_drag_unlimited(edge, x, y) ==
    LET delta_image == ToImage((IF edge \in {"left", "right"} THEN x ELSE y)
                               - drag_start_pos)
        old == [left |-> crop_left, top |-> crop_top,
                right |-> crop_right, bottom |-> crop_bottom]
    IN  CASE edge = "left"   -> [old EXCEPT !.left = Max(0, drag_start_crop + delta_image)]
          [] edge = "right"  -> [old EXCEPT !.right = Max(0, drag_start_crop - delta_image)]
          [] edge = "top"    -> [old EXCEPT !.top = Max(0, drag_start_crop + delta_image)]
          [] edge = "bottom" -> [old EXCEPT !.bottom = Max(0, drag_start_crop - delta_image)]

\* A drag that makes room by pushing the opposite edge back to the border.
crop_after_drag_pushing(edge, x, y) ==
    LET img_width   == current_image.w
        img_height  == current_image.h
        delta_image == ToImage((IF edge \in {"left", "right"} THEN x ELSE y)
                               - drag_start_pos)
        old == [left |-> crop_left, top |-> crop_top,
                right |-> crop_right, bottom |-> crop_bottom]
    IN  CASE edge = "left" ->
               [old EXCEPT !.left = Max(0, Min(drag_start_crop + delta_image,
                                               img_width - min_remaining)),
                           !.right = 0]
          [] edge = "right" ->
               [old EXCEPT !.right = Max(0, Min(drag_start_crop - delta_image,
                                                img_width - min_remaining)),
                           !.left = 0]
          [] edge = "top" ->
               [old EXCEPT !.top = Max(0, Min(drag_start_crop + delta_image,
                                              img_height - min_remaining)),
                           !.bottom = 0]
          [] edge = "bottom" ->
               [old EXCEPT !.bottom = Max(0, Min(drag_start_crop - delta_image,
                                                 img_height - min_remaining)),
                           !.top = 0]

\* Lines 566-595: the four offsets after a drag event at (x, y) of the edge
\* being dragged.
crop_after_drag(edge, x, y) ==
    LET img_width   == current_image.w
        img_height  == current_image.h
        delta_image == ToImage((IF edge \in {"left", "right"} THEN x ELSE y)
                               - drag_start_pos)
        old == [left |-> crop_left, top |-> crop_top,
                right |-> crop_right, bottom |-> crop_bottom]
    IN  CASE edge = "left" ->
               [old EXCEPT !.left =
                   Max(0, Min(drag_start_crop + delta_image,
                              img_width - crop_right - min_remaining))]
          [] edge = "right" ->
               [old EXCEPT !.right =
                   Max(0, Min(drag_start_crop - delta_image,
                              img_width - crop_left - min_remaining))]
          [] edge = "top" ->
               [old EXCEPT !.top =
                   Max(0, Min(drag_start_crop + delta_image,
                              img_height - crop_bottom - min_remaining))]
          [] edge = "bottom" ->
               [old EXCEPT !.bottom =
                   Max(0, Min(drag_start_crop - delta_image,
                              img_height - crop_top - min_remaining))]

\* on_mouse_drag(event): a motion with button 1 held.
on_mouse_drag(x, y) ==
    /\ button_down
    /\ IF dragging_edge = "none"
       THEN UNCHANGED <<crop_vars, has_changes>>
       ELSE LET new == crop_after_drag(dragging_edge, x, y) IN
            /\ crop_left' = new.left
            /\ crop_top' = new.top
            /\ crop_right' = new.right
            /\ crop_bottom' = new.bottom
            /\ has_changes' = (has_changes \/ new.left > 0 \/ new.top > 0
                               \/ new.right > 0 \/ new.bottom > 0)
    /\ UNCHANGED <<gallery_vars, current_image, original_image, current_date,
                   original_date, drag_vars, recent_dates, button_down,
                   saved_since_load, writes, running, invalid_date_shown>>

\* A release that leaves the edge held.
on_mouse_up_still_dragging ==
    /\ button_down
    /\ button_down' = FALSE
    /\ UNCHANGED <<gallery_vars, current_image, original_image, current_date,
                   original_date, has_changes, crop_vars, drag_vars, recent_dates,
                   saved_since_load, writes, running, invalid_date_shown>>

\* on_mouse_up(event)
on_mouse_up ==
    /\ button_down
    /\ button_down' = FALSE
    /\ dragging_edge' = "none"
    /\ UNCHANGED <<gallery_vars, current_image, original_image, current_date,
                   original_date, has_changes, crop_vars, drag_start_pos,
                   drag_start_crop, recent_dates, saved_since_load, writes, running,
                   invalid_date_shown>>

\* ---------------------------------------------------------------- edits

\* mirror_image()
mirror_image ==
    /\ current_image' = FlipLeftRight(current_image)
    /\ has_changes' = TRUE
    /\ UNCHANGED <<gallery_vars, original_image, current_date, original_date,
                   crop_vars, drag_vars, recent_dates, button_down, saved_since_load, writes,
                   running, invalid_date_shown>>

\* rotate_image(counterclockwise)
rotate_image(counterclockwise) ==
    /\ current_image' = IF counterclockwise THEN Rotate90(current_image)
                        ELSE Rotate270(current_image)
    /\ has_changes' = TRUE
    /\ UNCHANGED <<gallery_vars, original_image, current_date, original_date,
                   crop_vars, drag_vars, recent_dates, button_down, saved_since_load, writes,
                   running, invalid_date_shown>>

\* An enter_date that makes the typed text the date when it cannot be parsed.
enter_date_keeping_text(date_str) ==
    \E year_padded \in BOOLEAN :
    LET normalized == normalize_date(date_str, year_padded) IN
    /\ IF date_str # <<>>
       THEN /\ current_date' = IF normalized # NoDate THEN normalized ELSE date_str
            /\ has_changes' = TRUE
            /\ recent_dates' = add_recent_date(recent_dates, current_date')
            /\ invalid_date_shown' = (invalid_date_shown \/ normalized = NoDate)
       ELSE UNCHANGED <<current_date, has_changes, recent_dates, invalid_date_shown>>
    /\ UNCHANGED <<gallery_vars, current_image, original_image, original_date,
                   crop_vars, drag_vars, button_down, saved_since_load, writes, running>>

\* enter_date() with date_str what the dialog returned: nothing for an empty
\* or cancelled dialog, the date set for a text that parses, the "Invalid
\* Date" error box for a text that does not.
enter_date(date_str) ==
    \E year_padded \in BOOLEAN :
    LET normalized == normalize_date(date_str, year_padded) IN
    /\ IF date_str # <<>> /\ normalized # NoDate
       THEN /\ current_date' = normalized
            /\ has_changes' = TRUE
            /\ recent_dates' = add_recent_date(recent_dates, normalized)
            /\ UNCHANGED invalid_date_shown
       ELSE /\ invalid_date_shown' = (invalid_date_shown \/ date_str # <<>>)
            /\ UNCHANGED <<current_date, has_changes, recent_dates>>
    /\ UNCHANGED <<gallery_vars, current_image, original_image, original_date,
                   crop_vars, drag_vars, button_down, saved_since_load, writes, running>>

\* quick_select_date(num)
quick_select_date(num) ==
    LET idx == num - 1 IN
    /\ IF idx < Len(recent_dates)
       THEN /\ current_date' = recent_dates[idx + 1]
            /\ has_changes' = TRUE
            /\ recent_dates' = add_recent_date(recent_dates, recent_dates[idx + 1])
       ELSE UNCHANGED <<current_date, has_changes, recent_dates>>
    /\ UNCHANGED <<gallery_vars, current_image, original_image, original_date,
                   crop_vars, drag_vars, button_down, saved_since_load, writes, running,
                   invalid_date_shown>>

\* An undo that puts the image and the date back and forgets the crop box.
undo_keeping_crop ==
    /\ current_image' = original_image
    /\ current_date' = original_date
    /\ has_changes' = FALSE
    /\ UNCHANGED <<gallery_vars, original_image, original_date, crop_vars, drag_vars,
                   recent_dates, button_down, saved_since_load, writes, running, invalid_date_shown>>

\* undo_changes()
undo_changes ==
    /\ current_image' = original_image
    /\ current_date' = original_date
    /\ crop_left' = 0
    /\ crop_top' = 0
    /\ crop_right' = 0
    /\ crop_bottom' = 0
    /\ has_changes' = FALSE
    /\ UNCHANGED <<gallery_vars, original_image, original_date, drag_vars,
                   recent_dates, button_down, saved_since_load, writes, running, invalid_date_shown>>

\* A reset_crop that counts the reset as a change.
reset_crop_marking_changes ==
    /\ crop_left' = 0
    /\ crop_top' = 0
    /\ crop_right' = 0
    /\ crop_bottom' = 0
    /\ has_changes' = TRUE
    /\ UNCHANGED <<gallery_vars, current_image, original_image, current_date,
                   original_date, drag_vars, recent_dates, button_down,
                   saved_since_load, writes, running, invalid_date_shown>>

\* A reset_crop that takes the session for unchanged once the crop is gone.
reset_crop_clearing_changes ==
    /\ crop_left' = 0
    /\ crop_top' = 0
    /\ crop_right' = 0
    /\ crop_bottom' = 0
    /\ has_changes' = (has_changes /\ crop_left = 0 /\ crop_top = 0
                                    /\ crop_right = 0 /\ crop_bottom = 0)
    /\ UNCHANGED <<gallery_vars, current_image, original_image, current_date,
                   original_date, drag_vars, recent_dates, button_down,
                   saved_since_load, writes, running, invalid_date_shown>>

\* reset_crop()
reset_crop ==
    /\ IF crop_left > 0 \/ crop_top > 0 \/ crop_right > 0 \/ crop_bottom > 0
       THEN /\ crop_left' = 0
            /\ crop_top' = 0
            /\ crop_right' = 0
            /\ crop_bottom' = 0
       ELSE UNCHANGED crop_vars
    /\ UNCHANGED <<gallery_vars, current_image, original_image, current_date,
                   original_date, has_changes, drag_vars, recent_dates, button_down,
                   saved_since_load, writes, running, invalid_date_shown>>

\* ----------------------------------------------------------------- save

has_crop == crop_left > 0 \/ crop_top > 0 \/ crop_right > 0 \/ crop_bottom > 0

\* A save that writes the working image as it is, the crop box not applied.
image_to_save_uncropped == current_image

\* Lines 822-829: the image handed to Image.save, the crop applied to a copy.
image_to_save ==
    IF has_crop
    THEN Crop(current_image, crop_left, crop_top,
              current_image.w - crop_right, current_image.h - crop_bottom)
    ELSE current_image

\* Image.crop and Image.save raise on a box that is empty or inside out.
crop_box_fails ==
    /\ has_crop
    /\ \/ current_image.w - crop_right <= crop_left
       \/ current_image.h - crop_bottom <= crop_top

\* Lines 832-862: the file written: the pixels, the EXIF of the file at path
\* carried over, the orientation tag set to 1, the dates set when there is one.
written_entry(path) ==
    [isfile |-> TRUE,
     img    |-> image_to_save,
     date   |-> IF current_date # NoDate THEN ExifDate(current_date) ELSE disk[path].date,
     orient |-> 1,
     tags   |-> disk[path].tags]

\* The folder after Image.save(new_path).
Written(dsk, new_path, entry) ==
    [n \in DOMAIN dsk \cup {new_path} |-> IF n = new_path THEN entry ELSE dsk[n]]

\* The folder after path.unlink().
Unlinked(dsk, path) == [n \in DOMAIN dsk \ {path} |-> dsk[n]]

\* What a save leaves when it returns early or raises before Image.save wrote.
Untouched(result) ==
    [result |-> result, wrote |-> FALSE, disk |-> disk, images |-> images,
     original_image |-> original_image, original_date |-> original_date,
     has_changes |-> has_changes]

\* A rename that puts the new path into the first entry of the gallery.
images_after_rename_at_first(new_path) == [images EXCEPT ![1] = new_path]

\* self.images[self.current_index] = new_path
images_after_rename(new_path) == [images EXCEPT ![current_index + 1] = new_path]

\* A save that takes the new snapshot before it writes, so that a save that
\* fails has replaced it.
save_image_effect_snapshot_first(fail) ==
    LET path         == images[current_index + 1]
        new_path     == generate_new_filename(path, current_date, disk)
        needs_rename == new_path # path
        written      == Written(disk, new_path, written_entry(path))
        failed       == [Untouched("failed") EXCEPT !.original_image = current_image]
    IN  IF ~has_changes /\ ~needs_rename THEN Untouched("noop")
        ELSE IF crop_box_fails \/ fail \in {"dump", "write"} THEN failed
        ELSE IF needs_rename /\ fail = "unlink"
             THEN [failed EXCEPT !.disk = written, !.wrote = TRUE]
        ELSE [result         |-> "saved",
              wrote          |-> TRUE,
              disk           |-> IF needs_rename THEN Unlinked(written, path) ELSE written,
              images         |-> IF needs_rename
                                 THEN images_after_rename(new_path)
                                 ELSE images,
              original_image |-> current_image,
              original_date  |-> original_date,
              has_changes    |-> FALSE]

\* A save that deletes the old file before it writes the new one.
save_image_effect_deleting_first(fail) ==
    LET path         == images[current_index + 1]
        new_path     == generate_new_filename(path, current_date, disk)
        needs_rename == new_path # path
        deleted      == IF needs_rename THEN Unlinked(disk, path) ELSE disk
        written      == Written(deleted, new_path, written_entry(path))
    IN  IF ~has_changes /\ ~needs_rename THEN Untouched("noop")
        ELSE IF crop_box_fails \/ fail = "dump" THEN Untouched("failed")
        ELSE IF fail = "write" THEN [Untouched("failed") EXCEPT !.disk = deleted]
        ELSE [result         |-> "saved",
              wrote          |-> TRUE,
              disk           |-> written,
              images         |-> IF needs_rename
                                 THEN images_after_rename(new_path)
                                 ELSE images,
              original_image |-> current_image,
              original_date  |-> original_date,
              has_changes    |-> FALSE]

\* save_image() up to line 871, before it advances: what it did ("noop" for the
\* early return, "failed" for the except branch, "saved") and the fields it set.
\* `fail` is the place where the environment makes it raise.
save_image_effect(fail) ==
    LET path         == images[current_index + 1]
        new_path     == generate_new_filename(path, current_date, disk)
        needs_rename == new_path # path
        written      == Written(disk, new_path, written_entry(path))
    IN  IF ~has_changes /\ ~needs_rename THEN Untouched("noop")
        ELSE IF crop_box_fails \/ fail \in {"dump", "write"} THEN Untouched("failed")
        ELSE IF needs_rename /\ fail = "unlink"
             THEN [Untouched("failed") EXCEPT !.disk = written, !.wrote = TRUE]
        ELSE [result         |-> "saved",
              wrote          |-> TRUE,
              disk           |-> IF needs_rename THEN Unlinked(written, path) ELSE written,
              images         |-> IF needs_rename
                                 THEN images_after_rename(new_path)
                                 ELSE images,
              original_image |-> current_image,
              original_date  |-> original_date,
              has_changes    |-> FALSE]

\* save_current_without_advancing(), the copy of the save that prev_image uses.
save_current_without_advancing(fail) ==
    LET path         == images[current_index + 1]
        new_path     == generate_new_filename(path, current_date, disk)
        needs_rename == new_path # path
        written      == Written(disk, new_path, written_entry(path))
    IN  IF ~has_changes /\ ~needs_rename THEN Untouched("noop")
        ELSE IF crop_box_fails \/ fail \in {"dump", "write"} THEN Untouched("failed")
        ELSE IF needs_rename /\ fail = "unlink"
             THEN [Untouched("failed") EXCEPT !.disk = written, !.wrote = TRUE]
        ELSE [result         |-> "saved",
              wrote          |-> TRUE,
              disk           |-> IF needs_rename THEN Unlinked(written, path) ELSE written,
              images         |-> IF needs_rename
                                 THEN images_after_rename(new_path)
                                 ELSE images,
              original_image |-> current_image,
              original_date  |-> current_date,
              has_changes    |-> FALSE]

\* The model lets the saves of one run write MaxWrites files.
CountWrite(e) ==
    /\ e.wrote => writes < MaxWrites
    /\ writes' = IF e.wrote THEN writes + 1 ELSE writes

\* A save that crops the working image itself and keeps it when it does not
\* advance.
save_image_cropping_in_place(fail) ==
    LET e == save_image_effect(fail) IN
    /\ CountWrite(e)
    /\ disk' = e.disk
    /\ images' = e.images
    /\ IF e.result = "saved" /\ current_index < Len(images) - 1
       THEN /\ current_index' = current_index + 1
            /\ load_image(current_index + 1, e.images, e.disk)
       ELSE /\ original_image' = e.original_image
            /\ has_changes' = e.has_changes
            /\ saved_since_load' = (saved_since_load \/ e.result = "saved")
            /\ current_image' = IF e.result = "saved" THEN image_to_save ELSE current_image
            /\ UNCHANGED <<current_index, current_date, original_date,
                           crop_vars, recent_dates>>
    /\ UNCHANGED <<drag_vars, button_down>>

\* save_image(): the save, then lines 873-880: the next image loaded when there
\* is one.
save_image(fail) ==
    LET e == save_image_effect(fail) IN
    /\ CountWrite(e)
    /\ disk' = e.disk
    /\ images' = e.images
    /\ IF e.result = "saved" /\ current_index < Len(images) - 1
       THEN /\ current_index' = current_index + 1
            /\ load_image(current_index + 1, e.images, e.disk)
       ELSE /\ original_image' = e.original_image
            /\ has_changes' = e.has_changes
            /\ saved_since_load' = (saved_since_load \/ e.result = "saved")
            /\ UNCHANGED <<current_index, current_image, current_date, original_date,
                           crop_vars, recent_dates>>
    /\ UNCHANGED <<drag_vars, button_down>>

\* The S key.
key_save ==
    /\ \E fail \in SaveFailures : save_image(fail)
    /\ UNCHANGED <<running, invalid_date_shown>>

\* ----------------------------------------------------------- navigation

\* A next_image that goes round to the first image after the last one.
next_image_wrapping ==
    IF has_changes
    THEN /\ \E fail \in SaveFailures : save_image(fail)
         /\ UNCHANGED <<running, invalid_date_shown>>
    ELSE /\ current_index' = (current_index + 1) % Len(images)
         /\ load_image((current_index + 1) % Len(images), images, disk)
         /\ UNCHANGED <<disk, images, drag_vars, button_down, writes, running, invalid_date_shown>>

\* next_image()
next_image ==
    IF has_changes
    THEN /\ \E fail \in SaveFailures : save_image(fail)
         /\ UNCHANGED <<running, invalid_date_shown>>
    ELSE /\ IF current_index < Len(images) - 1
            THEN /\ current_index' = current_index + 1
                 /\ load_image(current_index + 1, images, disk)
            ELSE UNCHANGED <<current_index, current_image, original_image, current_date,
                             original_date, has_changes, crop_vars, recent_dates,
                             saved_since_load>>
         /\ UNCHANGED <<disk, images, drag_vars, button_down, writes, running, invalid_date_shown>>

\* prev_image(): the save without advancing when there are changes, then the
\* previous image whatever that save did, or the "first image" message.
prev_image(fail) ==
    LET e == IF has_changes THEN save_current_without_advancing(fail)
             ELSE Untouched("none")
    IN  /\ ~has_changes => fail = "none"
        /\ CountWrite(e)
        /\ disk' = e.disk
        /\ images' = e.images
        /\ IF current_index > 0
           THEN /\ current_index' = current_index - 1
                /\ load_image(current_index - 1, e.images, e.disk)
           ELSE /\ original_image' = e.original_image
                /\ original_date' = e.original_date
                /\ has_changes' = e.has_changes
                /\ saved_since_load' = (saved_since_load \/ e.result = "saved")
                /\ UNCHANGED <<current_index, current_image, current_date, crop_vars,
                               recent_dates>>
        /\ UNCHANGED <<drag_vars, button_down, running, invalid_date_shown>>

\* ----------------------------------------------------------------- quit

\* The answers to confirm_discard()'s question: Yes, No, Cancel.
DiscardAnswers == {"yes", "no", "cancel"}

\* An on_quit that saves whether there are changes or not.
on_quit_always_saving ==
    /\ \E fail \in SaveFailures : save_image(fail)
    /\ running' = FALSE
    /\ UNCHANGED invalid_date_shown

\* on_quit(), with confirm_discard(): a session with changes asks; Cancel
\* returns, No destroys the window, Yes calls save_image() and destroys the
\* window whatever the save did. A session without changes destroys the window.
on_quit ==
    IF has_changes
    THEN \E answer \in DiscardAnswers :
            CASE answer = "yes"    -> /\ \E fail \in SaveFailures : save_image(fail)
                                      /\ running' = FALSE
                                      /\ UNCHANGED invalid_date_shown
              [] answer = "no"     -> /\ running' = FALSE
                                      /\ UNCHANGED <<gallery_vars, current_image,
                                                     original_image, current_date,
                                                     original_date, has_changes, crop_vars,
                                                     drag_vars, recent_dates, button_down,
                                                     saved_since_load, writes,
                                                     invalid_date_shown>>
              [] answer = "cancel" -> UNCHANGED vars
    ELSE /\ running' = FALSE
         /\ UNCHANGED <<gallery_vars, current_image, original_image, current_date,
                        original_date, has_changes, crop_vars, drag_vars, recent_dates,
                        button_down, saved_since_load, writes,
                        invalid_date_shown>>

\* ------------------------------------------------------ specification

\* The gallery: dates, mirroring, undo, the saves and the navigation, on a
\* folder of one image and on a folder of two.
Next ==
    \/ mirror_image
    \/ \E date_str \in DateInputs : enter_date(date_str)
    \/ \E num \in QuickKeys : quick_select_date(num)
    \/ undo_changes
    \/ key_save
    \/ next_image
    \/ \E fail \in SaveFailures : prev_image(fail)

Spec == Init /\ [][Next]_vars

\* The editing of one loaded image, square or not: every edit handler and undo,
\* no save.
NextEdit ==
    \/ \E p \in LeftPoints : on_mouse_down(p[1], p[2])
    \/ \E p \in LeftPoints : on_mouse_drag(p[1], p[2])
    \/ on_mouse_up
    \/ mirror_image
    \/ \E ccw \in BOOLEAN : rotate_image(ccw)
    \/ \E date_str \in DateInputs : enter_date(date_str)
    \/ \E num \in QuickKeys : quick_select_date(num)
    \/ undo_changes
    \/ reset_crop

SpecEdit == (\E dsk \in {FolderA, FolderB} : InitOn(dsk)) /\ [][NextEdit]_vars

\* The crop box: presses, drags and releases on and off all four edges.
NextCrop ==
    \/ \E p \in EdgePoints : on_mouse_down(p[1], p[2])
    \/ \E p \in EdgePoints : on_mouse_drag(p[1], p[2])
    \/ on_mouse_up
    \/ reset_crop

SpecCrop == (\E dsk \in {FolderA, FolderB} : InitOn(dsk)) /\ [][NextCrop]_vars

\* One image alone in its folder, square or not, up to the first file the
\* session writes: presses and drags near the left and the right edge, turns,
\* a date, and the handlers that save.
NextFirstSave ==
    \/ writes = 0 /\ \E p \in InsetPoints : on_mouse_down(p[1], p[2])
    \/ writes = 0 /\ \E p \in InsetPoints : on_mouse_drag(p[1], p[2])
    \/ writes = 0 /\ on_mouse_up
    \/ writes = 0 /\ \E ccw \in BOOLEAN : rotate_image(ccw)
    \/ writes = 0 /\ \E date_str \in QuietDateInputs : enter_date(date_str)
    \/ writes = 0 /\ key_save
    \/ writes = 0 /\ next_image
    \/ writes = 0 /\ \E fail \in SaveFailures : prev_image(fail)

SpecFirstSave == (\E dsk \in {FolderA, FolderB} : InitOn(dsk)) /\ [][NextFirstSave]_vars

\* The end of the session: edits, saves and navigation while the window
\* exists, and the quit request.
NextQuit ==
    \/ running /\ mirror_image
    \/ running /\ \E date_str \in DateInputs : enter_date(date_str)
    \/ running /\ key_save
    \/ running /\ next_image
    \/ running /\ on_quit

SpecQuit == Init /\ [][NextQuit]_vars

\* The recent dates: the series typed in date after date, each date the first
\* of the series that the list does not hold; and, while the list holds the
\* series newest first, a date of the series typed again, the digit keys, and
\* the navigation without changes between the two images of a folder, one of
\* them with a date of its own; undo at any time.
InRecent(date) == \E k \in 1..Len(recent_dates) : recent_dates[k] = date

NextInSeries(i) ==
    /\ ~InRecent(SeriesDates[i])
    /\ \A j \in 1..(i - 1) : InRecent(SeriesDates[j])

SeriesIndex(date) ==
    IF \E i \in 1..MaxSeries : SeriesDates[i] = date
    THEN CHOOSE i \in 1..MaxSeries : SeriesDates[i] = date
    ELSE 0

SeriesNewestFirst ==
    \A k, l \in 1..Len(recent_dates) :
        (k < l /\ SeriesIndex(recent_dates[k]) > 0 /\ SeriesIndex(recent_dates[l]) > 0)
            => SeriesIndex(recent_dates[k]) > SeriesIndex(recent_dates[l])

NextDates ==
    \/ \E i \in 1..MaxSeries : NextInSeries(i) /\ enter_date(SeriesInput(i))
    \/ SeriesNewestFirst /\ enter_date(SeriesInput(3))
    \/ \E num \in QuickKeys \cup {LastKey} :
            (num = 1 \/ SeriesNewestFirst) /\ quick_select_date(num)
    \/ undo_changes
    \/ ~has_changes /\ SeriesNewestFirst /\ next_image
    \/ ~has_changes /\ SeriesNewestFirst /\ \E fail \in SaveFailures : prev_image(fail)

SpecDates == InitOn(FolderAB) /\ [][NextDates]_vars

\* Every handler that may set or clear has_changes, on a folder of two
\* images, up to the first file the session writes.
NextChanges ==
    \/ writes = 0 /\ \E p \in LeftPoints : on_mouse_move(p[1], p[2])
    \/ writes = 0 /\ \E p \in LeftPoints : on_mouse_down(p[1], p[2])
    \/ writes = 0 /\ \E p \in LeftPoints : on_mouse_drag(p[1], p[2])
    \/ writes = 0 /\ on_mouse_up
    \/ writes = 0 /\ mirror_image
    \/ writes = 0 /\ \E ccw \in BOOLEAN : rotate_image(ccw)
    \/ writes = 0 /\ \E date_str \in DateInputs : enter_date(date_str)
    \/ writes = 0 /\ \E num \in QuickKeys : quick_select_date(num)
    \/ writes = 0 /\ undo_changes
    \/ writes = 0 /\ reset_crop
    \/ writes = 0 /\ key_save
    \/ writes = 0 /\ next_image
    \/ writes = 0 /\ \E fail \in SaveFailures : prev_image(fail)

SpecChanges == InitOn(FolderAB) /\ [][NextChanges]_vars

\* The date parser: one text typed into the date dialog of a session just
\* loaded.
NextParse == ~has_changes /\ \E date_str \in ParseInputs : enter_date(date_str)

SpecParse == InitOn(FolderA) /\ [][NextParse]_vars

\* The fallbacks of the date parser: one text that strptime does not accept,
\* typed into the date dialog of a session just loaded.
NextFallback ==
    /\ ~has_changes
    /\ ~invalid_date_shown
    /\ \E date_str \in FallbackInputs : enter_date(date_str)

SpecFallback == InitOn(FolderA) /\ [][NextFallback]_vars

\* The running numbers: the saves and the navigation on folders that hold
\* numbered files.
NextNumbered ==
    \/ mirror_image
    \/ key_save
    \/ next_image
    \/ \E fail \in SaveFailures : prev_image(fail)

SpecNumbered == (\E dsk \in NumberedFolders : InitOn(dsk)) /\ [][NextNumbered]_vars

\* -------------------------------------------------------------- claims

\* The image and the date load_image() read from the file of the current
\* gallery entry, for as long as no save has touched that file.
LoadedImage ==
    LET entry == disk[images[current_index + 1]]
    IN  ExifTranspose(entry.img, entry.orient)

LoadedDate == read_exif_date(disk[images[current_index + 1]])

AllCropsZero == crop_left = 0 /\ crop_top = 0 /\ crop_right = 0 /\ crop_bottom = 0

\* C1: after any sequence of mirror, rotate, crop drag, reset-crop, date and
\* quick-select steps since the load, with no save among them, an undo leaves
\* the working image equal to the image as loaded, current_date equal to
\* original_date (the date as loaded), all four crop offsets zero and
\* has_changes false.
C1_UndoRestoresLoaded ==
    [][(undo_changes /\ ~saved_since_load) =>
          /\ current_image' = LoadedImage
          /\ current_date' = original_date'
          /\ current_date' = LoadedDate
          /\ AllCropsZero'
          /\ has_changes' = FALSE]_vars

\* C1 happens: a clean session with no crop, the image and the date as loaded,
\* whose recent dates hold a typed date and whose last press took hold of a
\* moved edge: with no save, only an undo makes such a session clean.
C1_Witness ==
    /\ ~has_changes /\ ~saved_since_load
    /\ AllCropsZero
    /\ current_image = LoadedImage
    /\ current_date = LoadedDate
    /\ drag_start_crop > 0
    /\ \E i \in 1..Len(recent_dates) : recent_dates[i] = <<"2", "0", "0", "5", "-", "0", "3", "-", "0", "4">>

\* C2: in every reachable state of the session, has_changes false implies that
\* the four crop offsets are zero, that current_date equals original_date and
\* that the working image equals the original snapshot.
C2_CleanMeansUnedited ==
    ~has_changes =>
        /\ AllCropsZero
        /\ current_date = original_date
        /\ current_image = original_image

\* C3: in every reachable state the crop offsets of each axis leave at least 50
\* pixels of the working image: crop_left + crop_right <= width - 50 and
\* crop_top + crop_bottom <= height - 50.
C3_CropLeavesMinimum ==
    /\ crop_left + crop_right <= current_image.w - 50
    /\ crop_top + crop_bottom <= current_image.h - 50

\* A motion event that moves an edge: on_mouse_drag with an edge taken hold of.
DragOf(edge) ==
    /\ dragging_edge = edge
    /\ \E p \in PointerPoints : on_mouse_drag(p[1], p[2])

\* C4 as stated: after a crop drag the two offsets of the dragged edge's axis
\* sum to less than the image extent on that axis minus 50.
C4_DragSumBelowLimit ==
    [][/\ (DragOf("left") \/ DragOf("right")) =>
             crop_left' + crop_right' < current_image.w - 50
       /\ (DragOf("top") \/ DragOf("bottom")) =>
             crop_top' + crop_bottom' < current_image.h - 50]_vars

\* C4 as the code has it: a crop drag leaves the dragged edge's offset between
\* 0 and max(0, extent - opposite offset - 50), so that the two offsets of the
\* axis sum to at most extent - 50 (exactly 50 pixels may remain) whenever the
\* opposite offset alone is at most extent - 50.
C4_DragSumAtMostLimit ==
    [][/\ DragOf("left") =>
             /\ 0 <= crop_left'
             /\ crop_left' <= Max(0, current_image.w - crop_right - 50)
             /\ crop_right <= current_image.w - 50 =>
                    crop_left' + crop_right' <= current_image.w - 50
       /\ DragOf("right") =>
             /\ 0 <= crop_right'
             /\ crop_right' <= Max(0, current_image.w - crop_left - 50)
             /\ crop_left <= current_image.w - 50 =>
                    crop_left' + crop_right' <= current_image.w - 50
       /\ DragOf("top") =>
             /\ 0 <= crop_top'
             /\ crop_top' <= Max(0, current_image.h - crop_bottom - 50)
             /\ crop_bottom <= current_image.h - 50 =>
                    crop_top' + crop_bottom' <= current_image.h - 50
       /\ DragOf("bottom") =>
             /\ 0 <= crop_bottom'
             /\ crop_bottom' <= Max(0, current_image.h - crop_top - 50)
             /\ crop_top <= current_image.h - 50 =>
                    crop_top' + crop_bottom' <= current_image.h - 50]_vars

\* C4 happens: an edge is held after a drag that the limit stopped, with the
\* opposite edge moved in as well: exactly 50 pixels remain across.
C4_Witness ==
    /\ button_down /\ dragging_edge = "right"
    /\ crop_left > 0 /\ crop_right > 0
    /\ crop_left + crop_right = current_image.w - 50

\* C5: a crop drag of one edge changes the stored offset of that edge only:
\* the opposite edge's offset and both offsets of the other axis stay.
C5_DragMovesOneEdge ==
    [][/\ DragOf("left") => UNCHANGED <<crop_top, crop_right, crop_bottom>>
       /\ DragOf("right") => UNCHANGED <<crop_left, crop_top, crop_bottom>>
       /\ DragOf("top") => UNCHANGED <<crop_left, crop_right, crop_bottom>>
       /\ DragOf("bottom") => UNCHANGED <<crop_left, crop_top, crop_right>>]_vars

\* C5 happens: the bottom edge is held and has been dragged in while the three
\* other edges are moved in too.
C5_Witness ==
    /\ button_down /\ dragging_edge = "bottom"
    /\ crop_bottom > 0 /\ crop_bottom # drag_start_crop
    /\ crop_left > 0 /\ crop_top > 0 /\ crop_right > 0

\* C6: when save_image() has saved an image and stayed on it (the last image
\* of the gallery), a second save_image() right after it writes, renames and
\* deletes nothing and the image keeps its path.
C6_SecondSaveIsNoOp ==
    [][(\E fail \in SaveFailures :
            /\ save_image(fail)
            /\ save_image_effect(fail).result = "saved"
            /\ current_index = Len(images) - 1)
       => (/\ save_image_effect("none").disk = disk
           /\ save_image_effect("none").images = images)']_vars

\* What a failed save must leave as it was.
SessionKept ==
    UNCHANGED <<current_image, original_image, crop_vars, current_date, original_date,
                images, current_index, has_changes>>

\* C7: a save that fails at the crop, at the building of the metadata, at the
\* write or at the delete of the old file changes no field of the session:
\* working image, original snapshot, crop offsets, current_date, original_date,
\* gallery entries, cursor and has_changes are as before the call, so a dirty
\* session stays dirty. (For the save of prev_image: on the first image, where
\* no other image is loaded after it.)
C7_FailedSaveKeepsSession ==
    [][\A fail \in SaveFailures :
          /\ (save_image(fail) /\ save_image_effect(fail).result = "failed")
                => SessionKept
          /\ (/\ prev_image(fail) /\ has_changes /\ current_index = 0
              /\ save_current_without_advancing(fail).result = "failed")
                => SessionKept]_vars

\* C7 happens: the only image of the folder is still the gallery entry and
\* still dirty, turned and cropped, while the folder holds a second file: a
\* save wrote the new file and failed at the delete of the old one.
C7_Witness ==
    /\ Len(images) = 1 /\ images[1] \in {FileA, FileB}
    /\ Cardinality(DOMAIN disk) = 2
    /\ has_changes
    /\ current_image # original_image
    /\ crop_left > 0

E2EInput == <<"3", "/", "4", "/", "0", "5">>

E2EName ==
    <<"2", "0", "0", "5", "-", "0", "3", "-", "0", "4", " ", "(", "t", "r", "i", "p", ")",
      " ", "1", ".", "j", "p", "g">>

\* The folder of C8 after the save: one file, 80x100, the scan with ten pixels
\* cut from its left and from its right side.
E2ESaved(dsk) ==
    /\ DOMAIN dsk = {E2EName}
    /\ dsk[E2EName].img.w = 80
    /\ dsk[E2EName].img.h = 100
    /\ dsk[E2EName].img =
          [Scan("a", 100, 100) EXCEPT !.w = 80,
              !.ins = [x \in {"L", "T", "R", "B"} |-> IF x \in {"L", "R"} THEN 10 ELSE 0]]
    /\ dsk[E2EName].date =
          <<"2", "0", "0", "5", ":", "0", "3", ":", "0", "4", " ",
            "1", "2", ":", "0", "0", ":", "0", "0">>
    /\ dsk[E2EName].orient = 1

\* C8: on a folder that holds one 100x100 image without a date, with the crop
\* dragged to left 10, right 10, top 0, bottom 0 and the date typed as "3/4/05",
\* a save leaves one file, 80x100 pixels, named "2005-03-04 (trip) 1.jpg", with
\* the date "2005:03:04 12:00:00" and the orientation tag 1; the original file
\* is gone.
C8_EndToEnd ==
    [][(/\ disk = FolderA
        /\ current_image = Scan("a", 100, 100)
        /\ crop_left = 10 /\ crop_right = 10 /\ crop_top = 0 /\ crop_bottom = 0
        /\ \E year_padded \in BOOLEAN : current_date = normalize_date(E2EInput, year_padded)
        /\ save_image("none"))
       => (E2ESaved(disk') /\ FileA \notin DOMAIN disk')]_vars

\* C8 happens: the session with that crop box and a typed date has saved, and
\* the folder holds the cropped, dated file.
C8_Witness ==
    /\ writes = 1
    /\ crop_left = 10 /\ crop_right = 10 /\ crop_top = 0 /\ crop_bottom = 0
    /\ original_date = NoDate /\ current_date # NoDate
    /\ ~has_changes
    /\ E2ESaved(disk)

\* The file being saved, the template its new name follows, and the numbers
\* the other regular files of the folder carry under that template.
SavedPath == images[current_index + 1]

SavedExtension == Lower(Suffix(SavedPath))

TemplateName(n) ==
    IF current_date # NoDate THEN DatedName(current_date, n, SavedExtension)
    ELSE PlainName(n, SavedExtension)

TemplateNumber(f) ==
    IF current_date # NoDate
    THEN PatternNumber(DatedPattern(current_date, SavedExtension), 1, f, 1, -1)
    ELSE PatternNumber(PlainPattern(SavedExtension), 1, f, 1, -1)

OtherNumbers ==
    { TemplateNumber(f) : f \in {g \in DOMAIN disk \ {SavedPath} : disk[g].isfile} } \ {-1}

AllocatedPath == generate_new_filename(SavedPath, current_date, disk)

\* C9: the allocator returns the name with the number max(S) + 1, or 1 when S
\* is empty, for S the numbers of the files that match the target template
\* other than the file being saved.
C9_NumberAfterOthers ==
    AllocatedPath = TemplateName(MaxNumber(OtherNumbers) + 1)

\* The lowest positive number whose templated name is the name of no entry of
\* `taken`.
LowestFree(taken) ==
    CHOOSE n \in 1..(Cardinality(taken) + 1) :
        /\ TemplateName(n) \notin taken
        /\ \A m \in 1..(n - 1) : TemplateName(m) \in taken

\* C10 as stated: the running number is the smallest positive integer whose
\* templated name collides with no existing file (read with and without the
\* file being saved among the existing files).
C10_SmallestFreeNumber ==
    \/ AllocatedPath = TemplateName(LowestFree(DOMAIN disk))
    \/ AllocatedPath = TemplateName(LowestFree(DOMAIN disk \ {SavedPath}))

\* C10 as the code has it: the running number is positive, above the number
\* of every other file that matches the template and at most one above the
\* highest number in the folder, and its name is the name of no entry other
\* than the file being saved; gaps below the highest number are not filled.
C10_NumberAboveOthers ==
    LET n == next_num(SavedPath, current_date, disk) IN
    /\ AllocatedPath = TemplateName(n)
    /\ n >= 1
    /\ \A m \in OtherNumbers : n > m
    /\ n <= MaxNumber(OtherNumbers \cup ({TemplateNumber(SavedPath)} \ {-1})) + 1
    /\ AllocatedPath \notin DOMAIN disk \ {SavedPath}

\* C10 happens: the folder holds the dated files numbered 1 and 3, and the
\* image about to be saved under that date gets the number 4.
C10_Witness ==
    /\ {Dated(1), Dated(3)} \subseteq DOMAIN disk
    /\ SavedPath = FileB
    /\ AllocatedPath = Dated(4)

\* C11: in the state every step starts from, the path the allocator returns
\* is the path of the file being saved or a path at which the folder holds
\* nothing; and every step leaves each file other than the file of the image
\* being saved in the folder, as it was.
C11_OnlyOwnFileTouched ==
    [][/\ AllocatedPath = SavedPath \/ AllocatedPath \notin DOMAIN disk
       /\ \A f \in DOMAIN disk \ {SavedPath} :
             f \in DOMAIN disk' /\ disk'[f] = disk[f]]_vars

\* C11 happens: saves have written two files into a folder that held the files
\* numbered 1 and 3, which are still there as they were.
C11_Witness ==
    /\ writes = 2
    /\ \/ /\ {Dated(1), Dated(3)} \subseteq DOMAIN disk
          /\ disk[Dated(1)] = EntryDated(1) /\ disk[Dated(3)] = EntryDated(3)
       \/ /\ {Plain(1), Plain(3)} \subseteq DOMAIN disk
          /\ disk[Plain(1)] = EntryPlain(1) /\ disk[Plain(3)] = EntryPlain(3)
    /\ Cardinality(DOMAIN disk) >= 3

C13_NextImage ==
    [][next_image =>
          /\ (~has_changes /\ current_index < Len(images) - 1) =>
                /\ current_index' = current_index + 1
                /\ disk' = disk /\ images' = images
                /\ current_image' = ExifTranspose(disk[images[current_index + 2]].img,
                                                  disk[images[current_index + 2]].orient)
                /\ original_image' = current_image'
                /\ current_date' = read_exif_date(disk[images[current_index + 2]])
                /\ has_changes' = FALSE
          /\ (~has_changes /\ current_index = Len(images) - 1) =>
                UNCHANGED <<disk, images, current_index, has_changes, current_image,
                            original_image, crop_vars, current_date, original_date,
                            recent_dates>>
          /\ has_changes =>
                \E fail \in SaveFailures :
                    /\ save_image(fail)
                    /\ current_index' =
                          IF save_image_effect(fail).result = "saved"
                             /\ current_index < Len(images) - 1
                          THEN current_index + 1 ELSE current_index
                    /\ save_image_effect(fail).result = "saved" =>
                          AllocatedPath \in DOMAIN disk'
                    /\ save_image_effect(fail).result = "failed" =>
                          has_changes' /\ images' = images]_vars

\* C13 happens: the first image of two was dirty, has been saved under its new
\* name, and the second image is loaded, clean.
C13_Witness ==
    /\ Len(images) = 2 /\ current_index = 1
    /\ images[1] # FileA /\ FileA \notin DOMAIN disk
    /\ writes = 1
    /\ ~has_changes /\ ~saved_since_load
    /\ current_image = LoadedImage

\* Everything of the program but whether its window exists.
session_vars ==
    <<disk, images, current_index, current_image, original_image, current_date,
      original_date, has_changes, crop_vars, drag_vars, recent_dates, button_down>>

\* C14: a quit request on a session with changes has one of three outcomes:
\* the window stays and nothing changes (Cancel); the window is destroyed and
\* nothing else changes, no file written (No); save_image() runs and the
\* window is destroyed (Yes). A quit request on a session without changes
\* destroys the window and changes nothing else, no file written.
C14_Quit ==
    [][on_quit =>
         /\ has_changes =>
               \/ UNCHANGED vars
               \/ running' = FALSE /\ UNCHANGED <<session_vars, writes>>
               \/ running' = FALSE /\ \E fail \in SaveFailures : save_image(fail)
         /\ ~has_changes => running' = FALSE /\ UNCHANGED <<session_vars, writes>>]_vars

\* The window destroyed on a session that has changes, no file written: the
\* changes dropped at the quit request, or a save at the quit request that failed.
C14_Witness ==
    /\ ~running
    /\ has_changes
    /\ writes = 0
    /\ current_date # original_date

\* A step that sets, quick-selects or loads a date.
AddsDate ==
    \/ \E i \in 1..MaxSeries :
          current_date' = SeriesDates[i] /\ enter_date(SeriesInput(i))
    \/ \E num \in 1..LastKey : num <= Len(recent_dates) /\ quick_select_date(num)
    \/ current_index' # current_index /\ current_date' # NoDate

\* C15: after every step the recent dates are nine at most and no two of them
\* equal. A step that sets, quick-selects or loads a date leaves that date
\* first; when the list held the date, the other dates follow in the order
\* they had; when it did not, the list as it was follows, without its last
\* date when it held nine. Every other step leaves the list as it was.
C15_RecentDates ==
    [][/\ Len(recent_dates') <= 9
       /\ \A k, l \in 1..Len(recent_dates') :
              k # l => recent_dates'[k] # recent_dates'[l]
       /\ AddsDate =>
              /\ recent_dates'[1] = current_date'
              /\ InRecent(current_date') =>
                     Tail(recent_dates') =
                        SelectSeq(recent_dates, LAMBDA d : d # current_date')
              /\ (~InRecent(current_date') /\ Len(recent_dates) < 9) =>
                     Tail(recent_dates') = recent_dates
              /\ (~InRecent(current_date') /\ Len(recent_dates) = 9) =>
                     Tail(recent_dates') = SubSeq(recent_dates, 1, 8)
       /\ ~AddsDate => recent_dates' = recent_dates]_vars

\* Nine recent dates, the first date of the series dropped for a tenth date,
\* and a date moved to the front past newer ones.
C15_Witness ==
    /\ Len(recent_dates) = 9
    /\ ~InRecent(SeriesDates[1])
    /\ InRecent(LoadedDate)
    /\ ~SeriesNewestFirst

\* C16: in every state the index is at least 0 and below the number of
\* gallery entries; no step changes the number of gallery entries or any entry
\* but the one at the index; and an entry that a step changes becomes the path
\* the allocator gives the saved file, a file of the folder after the step.
C16_GalleryKept ==
    [][/\ current_index \in 0..(Len(images) - 1)
       /\ current_index' \in 0..(Len(images') - 1)
       /\ Len(images') = Len(images)
       /\ \A k \in 1..Len(images) :
              images'[k] # images[k] =>
                 /\ k = current_index + 1
                 /\ images'[k] = AllocatedPath
                 /\ images'[k] \in DOMAIN disk'
                 /\ images[k] \notin DOMAIN disk']_vars

\* The second of three gallery entries renamed by a save, the first and the
\* third as they were at the start.
C16_Witness ==
    /\ Len(images) = 3
    /\ images[1] \in {Dated(1), FileA}
    /\ images[2] \notin {Dated(3), Plain(1)}
    /\ images[3] \in {FileB, Plain(3)}
    /\ current_index = 2

\* C17: enter_date with a text that cannot be parsed leaves the date, the
\* changes flag, the recent dates, the crop offsets, the working image and
\* everything else of the session as they were, and the "Invalid Date" error
\* box has been shown after it.
C17_FailedParseKeepsSession ==
    [][\A date_str \in UnparsedDateInputs :
          enter_date(date_str) =>
             /\ UNCHANGED <<current_date, has_changes, recent_dates, crop_vars,
                            current_image, original_image, original_date,
                            gallery_vars, drag_vars, button_down>>
             /\ invalid_date_shown']_vars

\* The error box shown in a session with changes: a date set, the left edge
\* of the crop box moved in.
C17_Witness ==
    /\ invalid_date_shown
    /\ has_changes
    /\ current_date # original_date
    /\ crop_left > 0
    /\ Len(recent_dates) > 0

\* A step of mirror, rotate, a date set, a quick-select of a slot that holds a
\* date, or a drag of an edge that leaves an offset of the crop box non-zero.
ChangingStep ==
    \/ mirror_image
    \/ \E ccw \in BOOLEAN : rotate_image(ccw)
    \/ \E date_str \in QuietDateInputs \ {<<>>} : enter_date(date_str)
    \/ \E num \in 1..Len(recent_dates) : quick_select_date(num)
    \/ /\ dragging_edge # "none"
       /\ \E p \in LeftPoints : on_mouse_drag(p[1], p[2])
       /\ crop_left' > 0 \/ crop_top' > 0 \/ crop_right' > 0 \/ crop_bottom' > 0

\* A step of a save that went through: save_image(), or the save prev_image()
\* makes of a session with changes.
SavingStep ==
    \E fail \in SaveFailures :
        \/ save_image_effect(fail).result = "saved" /\ save_image(fail)
        \/ /\ has_changes
           /\ save_current_without_advancing(fail).result = "saved"
           /\ prev_image(fail)

\* C18: a mirror, a rotate, a date set, a quick-select of a slot that holds a
\* date and a drag that leaves an offset non-zero leave has_changes set; undo
\* and a save that went through leave it clear; and no other step of any
\* handler takes has_changes from clear to set.
C18_ChangesFlag ==
    [][/\ ChangingStep => has_changes'
       /\ (undo_changes \/ SavingStep) => ~has_changes'
       /\ (~has_changes /\ has_changes') => ChangingStep]_vars

\* A session whose only change is the crop box: the image and the date as
\* loaded, the left edge dragged in, has_changes set.
C18_Witness ==
    /\ has_changes
    /\ crop_left > 0
    /\ current_image = original_image
    /\ current_date = original_date
    /\ writes = 0

\* The date that s spells under the template fmt when its month takes lm
\* characters and its day ld: four digits for the year, digits or a month name
\* for the month, digits for the day, every other character as the template
\* has it, and nothing left over.
RECURSIVE Spelled(_, _, _, _, _, _, _)
Spelled(fmt, k, s, pos, lm, ld, acc) ==
    LET digits(n) == /\ pos + n - 1 <= Len(s)
                     /\ \A i \in pos..(pos + n - 1) : IsDigit(s[i])
        number(n) == ToInt(SubSeq(s, pos, pos + n - 1))
        names     == IF fmt[k] = "%B" THEN MonthNames ELSE MonthAbbrs
    IN  IF k > Len(fmt)
        THEN (IF pos = Len(s) + 1 THEN [acc EXCEPT !.ok = TRUE] ELSE NoMatch)
        ELSE CASE fmt[k] = "%Y" ->
                    IF digits(4)
                    THEN Spelled(fmt, k + 1, s, pos + 4, lm, ld, [acc EXCEPT !.Y = number(4)])
                    ELSE NoMatch
               [] fmt[k] = "%m" ->
                    IF digits(lm)
                    THEN Spelled(fmt, k + 1, s, pos + lm, lm, ld, [acc EXCEPT !.m = number(lm)])
                    ELSE NoMatch
               [] fmt[k] = "%d" ->
                    IF digits(ld)
                    THEN Spelled(fmt, k + 1, s, pos + ld, lm, ld, [acc EXCEPT !.d = number(ld)])
                    ELSE NoMatch
               [] fmt[k] \in {"%B", "%b"} ->
                    IF \E i \in 1..12 : StartsAt(s, pos, names[i])
                    THEN LET i == CHOOSE j \in 1..12 : StartsAt(s, pos, names[j])
                         IN  Spelled(fmt, k + 1, s, pos + Len(names[i]), lm, ld,
                                     [acc EXCEPT !.m = i])
                    ELSE NoMatch
               [] OTHER ->
                    IF At(s, pos) = fmt[k]
                    THEN Spelled(fmt, k + 1, s, pos + 1, lm, ld, acc)
                    ELSE NoMatch

\* The calendar dates that s spells under the template fmt.
DatesSpelled(s, fmt) ==
    LET readings == { Spelled(fmt, 1, s, 1, lm, ld, [ok |-> FALSE, Y |-> 0, m |-> 0, d |-> 0]) :
                        lm \in {1, 2}, ld \in {1, 2} }
    IN  { r \in readings :
            /\ r.ok
            /\ r.Y >= 1
            /\ r.m \in 1..12
            /\ r.d >= 1 /\ r.d <= DaysInMonth(r.Y, r.m) }

\* The first template under which s spells a date, 0 when there is none.
FirstTemplate(s) ==
    IF \E k \in 1..Len(formats) : DatesSpelled(s, formats[k]) # {}
    THEN CHOOSE k \in 1..Len(formats) :
            /\ DatesSpelled(s, formats[k]) # {}
            /\ \A j \in 1..(k - 1) : DatesSpelled(s, formats[j]) = {}
    ELSE 0

\* For each input that spells a date under a template: that date, under the
\* first such template, as YYYY-MM-DD with zeros to the left.
TemplateDates ==
    [s \in {t \in ParseInputs : FirstTemplate(t) > 0} |->
        { Fmt(r.Y, 4) \o <<"-">> \o Fmt(r.m, 2) \o <<"-">> \o Fmt(r.d, 2) :
            r \in DatesSpelled(s, formats[FirstTemplate(s)]) }]

\* C19: for every text that spells a date under one of the twelve templates,
\* enter_date makes the current date the date the text spells under the first
\* such template, written YYYY-MM-DD with zeros to the left.
C19_StrictTemplates ==
    [][\A s \in DOMAIN TemplateDates :
          enter_date(s) => current_date' \in TemplateDates[s]]_vars

\* The six digits 052096.
SixDigits == <<"0", "5", "2", "0", "9", "6">>

\* C20: enter_date with the text 052096 makes the current date 1996-05-20, and
\* strptime accepts the text under none of the twelve formats.
C20_SixDigitsCompact ==
    [][enter_date(SixDigits) =>
          /\ current_date' = <<"1", "9", "9", "6", "-", "0", "5", "-", "2", "0">>
          /\ ~FirstStrict(SixDigits, 1).ok]_vars

\* A text of the form YYYY-MM-DD, the month from 01 to 12 and the day from 01
\* to 31.
WellFormedDate(t) ==
    /\ Len(t) = 10
    /\ \A i \in {1, 2, 3, 4, 6, 7, 9, 10} : IsDigit(t[i])
    /\ t[5] = "-" /\ t[8] = "-"
    /\ ToInt(SubSeq(t, 6, 7)) \in 1..12
    /\ ToInt(SubSeq(t, 9, 10)) \in 1..31

\* The three-group reading of the numbers a, b, c: the year first when a is
\* above 31; else the year last when c is 100 or more, the day first when a
\* is above 12; else a two-digit year last, of the 1900s when above 50.
GroupsReading(a, b, c) ==
    IF a > 31 THEN [y |-> a, m |-> b, d |-> c]
    ELSE IF c >= 100
         THEN (IF a > 12 THEN [y |-> c, m |-> b, d |-> a] ELSE [y |-> c, m |-> a, d |-> b])
         ELSE [y |-> IF c > 50 THEN 1900 + c ELSE 2000 + c, m |-> a, d |-> b]

\* The compact reading of four to six digits: the last two the year, of the
\* 1900s when above 50; before them the month and the day, the day in two
\* digits when three or four digits are left.
CompactReading(ds) ==
    LET n    == Len(ds)
        yy   == ToInt(SubSeq(ds, n - 1, n))
        lm   == IF n = 6 THEN 2 ELSE 1
    IN  [y |-> IF yy > 50 THEN 1900 + yy ELSE 2000 + yy,
         m |-> ToInt(SubSeq(ds, 1, lm)),
         d |-> ToInt(SubSeq(ds, lm + 1, n - 2))]

InRange(r) == r.m \in 1..12 /\ r.d \in 1..31

\* The digits of the texts of SpacedInputs, the space left out.
SpacedDigits(s) == SelectSeq(s, LAMBDA c : c # " ")

\* C21: every date enter_date sets from a text is of the form YYYY-MM-DD with
\* the month from 1 to 12 and the day from 1 to 31; and a text whose
\* three-group or compact reading has the month or the day outside these
\* ranges sets no date and brings up the error box.
C21_ResultInRange ==
    [][\A s \in FallbackInputs :
          enter_date(s) =>
             /\ current_date' # NoDate => WellFormedDate(current_date')
             /\ \A a \in FirstNumbers, b \in SecondNumbers, c \in ThirdNumbers :
                    (s = Dotted(a, b, c) /\ ~InRange(GroupsReading(a, b, c)))
                        => (current_date' = NoDate /\ invalid_date_shown')
             /\ (s \in SpacedInputs /\ ~InRange(CompactReading(SpacedDigits(s))))
                    => (current_date' = NoDate /\ invalid_date_shown')]_vars

\* The number of digit groups of a text, and the number of its digits.
NumGroups(s) ==
    Cardinality({i \in 1..Len(s) : IsDigit(s[i]) /\ (i = 1 \/ ~IsDigit(s[i - 1]))})

NumDigits(s) == Cardinality({i \in 1..Len(s) : IsDigit(s[i])})

\* The texts that no strict template reads, that have not exactly three digit
\* groups and not four to six digits.
Unreadable(s) ==
    /\ FirstTemplate(s) = 0
    /\ NumGroups(s) # 3
    /\ NumDigits(s) \notin 4..6

\* C22: a text that matches no strict template, has not exactly three digit
\* groups and whose digits do not number four to six is a parse failure:
\* enter_date sets no date and brings up the error box.
C22_UnreadableFails ==
    [][\A s \in FallbackInputs :
          (Unreadable(s) /\ enter_date(s))
              => (current_date' = NoDate /\ invalid_date_shown')]_vars

\* The error box is up over the first image with no date set and nothing else
\* done; among FallbackInputs the unreadable texts bring the session here.
C22_Witness ==
    /\ invalid_date_shown
    /\ current_date = NoDate
    /\ recent_dates = <<>>
    /\ \E s \in FallbackInputs : Unreadable(s)

\* A year, month and day written as a date text.
DateText(r) == Fmt(r.y, 4) \o <<"-">> \o Fmt(r.m, 2) \o <<"-">> \o Fmt(r.d, 2)

\* C26: a text of exactly three digit groups a, b, c that no strict template
\* reads sets the date of year a, month b, day c when a > 31; else, when
\* c >= 100, of year c with day a and month b when a > 12, month a and day b
\* otherwise; else of year 1900 + c when c > 50 and 2000 + c otherwise, with
\* month a and day b.
C26_ThreeGroups ==
    [][\A a \in FirstNumbers, b \in SecondNumbers, c \in ThirdNumbers :
          (/\ FirstTemplate(Dotted(a, b, c)) = 0
           /\ NumGroups(Dotted(a, b, c)) = 3
           /\ enter_date(Dotted(a, b, c)))
              => current_date' = DateText(GroupsReading(a, b, c))]_vars

\* "1.12.50" entered: the two-digit year 50 read as 2050.
C26_Witness ==
    /\ current_date = <<"2", "0", "5", "0", "-", "0", "1", "-", "1", "2">>
    /\ has_changes

\* A regular file is at the path p of the folder dsk.
HasFile(dsk, p) == p \in DOMAIN dsk /\ dsk[p].isfile

\* A save attempt: save_image, or prev_image on a session with changes.
SaveAttempt(fail) == save_image(fail) \/ (has_changes /\ prev_image(fail))

\* C23: in both saves the old file is deleted and the gallery entry replaced
\* only after the new file is written: a save that fails at the crop, at the
\* building of the metadata or at the write leaves the folder and the gallery
\* as they were; where the old file is gone or the gallery entry replaced the
\* new file is in the folder; and after every save attempt a file is at the
\* old path or at the new one.
C23_WriteBeforeDelete ==
    [][\A fail \in SaveFailures :
          SaveAttempt(fail) =>
             /\ HasFile(disk', SavedPath) \/ HasFile(disk', AllocatedPath)
             /\ (crop_box_fails \/ fail \in {"dump", "write"})
                    => (disk' = disk /\ images' = images)
             /\ (~HasFile(disk', SavedPath) \/ images' # images)
                    => HasFile(disk', AllocatedPath)]_vars

\* A save has renamed the only image of the folder: the old file is gone, the
\* gallery entry is the new file.
C23_Witness ==
    /\ writes = 1
    /\ saved_since_load
    /\ Len(images) = 1
    /\ DOMAIN disk = {images[1]}
    /\ images[1] \notin {FileA, FileB}

\* C24: with a date and without one, when the file being saved carries a
\* name of the target template, the numbers the allocator takes the maximum
\* of are those of the other matching files, its own number left out.
C24_OwnNumberLeftOut ==
    TemplateNumber(SavedPath) # -1
        => existing_numbers(SavedPath, current_date, disk) = OtherNumbers

\* C25: run from the same session with changes and the same folder, the save
\* of prev_image and save_image up to its advance do the same: the same
\* outcome and files in the folder, the same gallery, the same original
\* snapshot, original_date and has_changes (neither touches the working
\* image, current_date or the crop offsets).
C25_SameSave ==
    has_changes
        => \A fail \in SaveFailures :
              save_current_without_advancing(fail) = save_image_effect(fail)

\* C27: reset_crop sets the four crop offsets to zero and leaves has_changes,
\* the working image, current_date, the recent dates and the cursor as they
\* were; a session with changes only because of a crop still has changes.
C27_ResetCrop ==
    [][reset_crop =>
          /\ crop_left' = 0 /\ crop_top' = 0 /\ crop_right' = 0 /\ crop_bottom' = 0
          /\ UNCHANGED <<has_changes, current_image, current_date, recent_dates,
                         current_index>>]_vars

\* A session whose edit was a crop, after the reset: the last press took hold
\* of an edge that was moved in, no crop is left, the image and the date are
\* as loaded, the button is up, and has_changes is still set.
C27_Witness ==
    /\ has_changes
    /\ drag_start_crop > 0
    /\ AllCropsZero
    /\ current_image = LoadedImage
    /\ current_date = LoadedDate
    /\ recent_dates = <<>>
    /\ ~button_down

\* C28: the crop is deferred. A drag of an edge, reset_crop and a save that
\* stays on its image leave the working image as it was, pixels and size; a
\* save with a crop box writes the box (left, top, width - right,
\* height - bottom) cut from the working image.
C28_CropDeferred ==
    [][/\ ((\E p \in LeftPoints : on_mouse_drag(p[1], p[2])) \/ reset_crop)
            => UNCHANGED current_image
       /\ \A fail \in SaveFailures :
            /\ ((save_image(fail) \/ prev_image(fail)) /\ current_index' = current_index)
                  => UNCHANGED current_image
            /\ (save_image(fail) /\ has_crop /\ save_image_effect(fail).result = "saved")
                  => disk'[AllocatedPath].img =
                        Crop(current_image, crop_left, crop_top,
                             current_image.w - crop_right, current_image.h - crop_bottom)]_vars

\* The last image saved with its left edge moved in: the session stays on it
\* with the crop box, the working image wider than the file written.
C28_Witness ==
    /\ writes = 1
    /\ saved_since_load
    /\ ~has_changes
    /\ current_index = Len(images) - 1
    /\ crop_left > 0
    /\ disk[SavedPath].img.w = current_image.w - crop_left

\* A pointer event at the point p: a press, a motion with the button held, a
\* motion without, or a release.
PointerEvent(p) ==
    \/ on_mouse_down(p[1], p[2])
    \/ on_mouse_drag(p[1], p[2])
    \/ on_mouse_move(p[1], p[2])
    \/ on_mouse_up

\* C29: the pointer is idle (dragging_edge "none") or dragging an edge. It
\* comes to drag an edge only by a press that get_edge_at_position puts on
\* that edge; every release makes it idle; a pointer event changes a crop
\* offset only as a motion with an edge held, and only the offset of that
\* edge, so that a press off the edges and a motion in idle change none.
C29_PointerMachine ==
    [][/\ (dragging_edge' # dragging_edge /\ dragging_edge' # "none")
            => \E p \in EdgePoints :
                  /\ on_mouse_down(p[1], p[2])
                  /\ get_edge_at_position(p[1], p[2]) = dragging_edge'
       /\ on_mouse_up => dragging_edge' = "none"
       /\ \A p \in EdgePoints :
            PointerEvent(p) =>
               /\ crop_vars' # crop_vars
                     => (dragging_edge # "none" /\ on_mouse_drag(p[1], p[2]))
               /\ dragging_edge # "left" => crop_left' = crop_left
               /\ dragging_edge # "top" => crop_top' = crop_top
               /\ dragging_edge # "right" => crop_right' = crop_right
               /\ dragging_edge # "bottom" => crop_bottom' = crop_bottom]_vars

\* The bottom edge held and moved up, after a drag of the left edge that a
\* release ended.
C29_Witness ==
    /\ button_down
    /\ dragging_edge = "bottom"
    /\ crop_bottom > 0
    /\ crop_left > 0
    /\ crop_top = 0 /\ crop_right = 0

\* What a failed save on the way to another image must leave: the cursor, the
\* changes flag and the edits.
EditsKept ==
    UNCHANGED <<current_index, has_changes, current_image, current_date, crop_vars>>

\* C30: next_image and prev_image load another image over a session with
\* changes only after its save has succeeded; when that save fails the cursor
\* stays, and the session keeps has_changes and its edits.
C30_NoEditsLost ==
    [][/\ (has_changes /\ next_image)
            => \E fail \in SaveFailures :
                  /\ save_image(fail)
                  /\ current_index' # current_index
                        => save_image_effect(fail).result = "saved"
                  /\ save_image_effect(fail).result = "failed" => EditsKept
       /\ \A fail \in SaveFailures :
            (has_changes /\ prev_image(fail)) =>
               /\ current_index' # current_index
                     => save_current_without_advancing(fail).result = "saved"
               /\ save_current_without_advancing(fail).result = "failed" => EditsKept]_vars

\* A key-driven operation that loads or resets the image: next, previous, a
\* save that advances, undo, rotate.
KeyOperation ==
    \/ next_image
    \/ \E fail \in SaveFailures : prev_image(fail)
    \/ key_save /\ current_index' # current_index
    \/ undo_changes
    \/ \E ccw \in BOOLEAN : rotate_image(ccw)

\* C31: a drag belongs to the image it started on: a key-driven operation
\* that comes between the press on an edge and the motions after it leaves
\* the pointer idle, so that no later motion sets a crop offset of the image
\* loaded or reset from the offset and the position of the press.
C31_KeyEndsDrag ==
    [][(dragging_edge # "none" /\ KeyOperation) => dragging_edge' = "none"]_vars

\* C32: a quit request on a session with changes that is answered with "save"
\* (the step writes a file, which the other answers never do) destroys the
\* window only when the save succeeded, has_changes cleared; after a save
\* that failed the window is still there, has_changes is set and the edits
\* are as they were.
C32_QuitOnlyAfterSave ==
    [][(has_changes /\ on_quit /\ writes' # writes) =>
          /\ ~running' => ~has_changes'
          /\ has_changes' =>
                /\ running'
                /\ UNCHANGED <<current_index, current_image, current_date,
                               crop_vars>>]_vars

====
